---- MODULE Spec2Model ----
(***************************************************************************)
(* Verification model of the acacia-db analysis scripts:                   *)
(*   scripts/analyze_object_relationship_columns.py  (ObjectRelationshipAnalyzer)          *)
(*   scripts/msdyn/analyze_relational_columns.py     (MSDynamicsRelationalColumnsAnalyzer) *)
(*   scripts/analyze_top_columns.py                  (TopColumnsAnalyzer)                  *)
(*   scripts/analyze_object_relations.py             (ObjectRelationAnalyzer)              *)
(*   scripts/msdyn/analyze_object_relationship_columns.py                                  *)
(*                                                                         *)
(* Text is a sequence of one-character strings; offsets are 0-based as in  *)
(* Python.  Floating point scores are fixed-point numbers, PScale = 1.0.   *)
(***************************************************************************)
EXTENDS Integers, Sequences, FiniteSets, TLC

VARIABLES
  analyzer,          \* which class runs: "rel", "msdyn", "top", ...
  column_scores,     \* column_scores / aggregated_scores: ordered dict column -> score record
  weighted_scores,   \* TopColumnsAnalyzer: ordered dict column -> weighted score
  mention_details,   \* TopColumnsAnalyzer: ordered dict column -> per-field counts
  doc,               \* the document (window) handled by the last loop iteration
  docs_seen,         \* number of documents handled so far
  top_n,             \* size of the ranking asked for
  result,            \* the ranking list that is returned
  pc,                \* position in the run
  metadata_file,     \* the JSON value of the metadata file
  args,              \* the command line: object1 (or object), object2, top_n, min_cooccurrence
  object_columns,    \* self.object_columns: ordered dict object -> columns
  pending,           \* bulk mode: the objects or pairs the loop has still to handle
  relationships,     \* find_object_relationships: ordered dict pair -> count
  queries,           \* the requests sent to the index so far
  results,           \* bulk mode: all_results / relationships
  output,            \* what has been printed or saved of results
  exit_status,       \* "running", "exit0", "exit1", "traceback" (uncaught exception)
  response,          \* what the index answered to the last request(s)
  call               \* a function called on its own: its name and its arguments

scoreVars == <<analyzer, column_scores, weighted_scores, mention_details, doc, docs_seen, top_n, result, pc>>

runVars == <<metadata_file, args, object_columns, pending, relationships, queries, results, output,
             exit_status, response, call>>

vars == <<scoreVars, runVars>>

----------------------------------------------------------------------------
(* Bounds of the model *)

MaxDocs == 3         \* documents of one index response (run)
MaxTopN == 3         \* largest top_n asked for
MaxWindowWords == 4  \* words of the document of the single-window check

----------------------------------------------------------------------------
(* Characters, str.upper() and the regular expression \bNAME\b *)

UpperSeq == <<"A","B","C","D","E","F","G","H","I","J","K","L","M",
              "N","O","P","Q","R","S","T","U","V","W","X","Y","Z">>

LowerSeq == <<"a","b","c","d","e","f","g","h","i","j","k","l","m",
              "n","o","p","q","r","s","t","u","v","w","x","y","z">>

Digits == {"0","1","2","3","4","5","6","7","8","9"}

Range(s) == {s[i] : i \in DOMAIN s}

\* the characters \w matches
WordChars == Range(UpperSeq) \cup Range(LowerSeq) \cup Digits \cup {"_"}

IsWordChar(c) == c \in WordChars

UpperOfLower == [c \in Range(LowerSeq) |-> UpperSeq[CHOOSE i \in DOMAIN LowerSeq : LowerSeq[i] = c]]

UpperChar(c) == IF c \in DOMAIN UpperOfLower THEN UpperOfLower[c] ELSE c

upper(text) == [i \in 1..Len(text) |-> UpperChar(text[i])]

\* \b at 0-based position p of text: exactly one side is a word character
WordBoundary(text, p) ==
  LET before == IF p >= 1 THEN IsWordChar(text[p]) ELSE FALSE
      after  == IF p < Len(text) THEN IsWordChar(text[p + 1]) ELSE FALSE
  IN  before # after

\* r'\b' + re.escape(name) + r'\b' matches at 0-based offset i
MatchAt(name, text, i) ==
  /\ i + Len(name) <= Len(text)
  /\ \A k \in 1..Len(name) : text[i + k] = name[k]
  /\ WordBoundary(text, i)
  /\ WordBoundary(text, i + Len(name))

RECURSIVE ScanFrom(_, _, _)
ScanFrom(name, text, i) ==
  IF i + Len(name) > Len(text) THEN <<>>
  ELSE IF MatchAt(name, text, i)
         THEN <<i>> \o ScanFrom(name, text, i + Len(name))
         ELSE ScanFrom(name, text, i + 1)

\* variant: the offsets at which the matches end
finditer_end(name, text) ==
  [i \in 1..Len(ScanFrom(name, text, 0)) |-> ScanFrom(name, text, 0)[i] + Len(name)]

\* [m.start() for m in re.finditer(pattern, text)]: non-overlapping, left to right
finditer(name, text) == ScanFrom(name, text, 0)

RECURSIVE join(_, _)
join(sep, lines) ==
  IF lines = <<>> THEN <<>>
  ELSE IF Len(lines) = 1 THEN lines[1]
  ELSE lines[1] \o sep \o join(sep, Tail(lines))

Min(a, b) == IF a <= b THEN a ELSE b
Max(a, b) == IF a >= b THEN a ELSE b
Abs(x) == IF x < 0 THEN 0 - x ELSE x

\* code point order of the characters that occur in names
CharOrder == <<" ", "0", "1", "2", "3", "4", "5", "6", "7", "8", "9">>
               \o UpperSeq \o <<"_">> \o LowerSeq

Ord(c) == CHOOSE i \in DOMAIN CharOrder : CharOrder[i] = c

\* a < b for Python strings
LexLess(a, b) ==
  \E k \in 1..(Min(Len(a), Len(b)) + 1) :
    /\ \A m \in 1..(k - 1) : a[m] = b[m]
    /\ \/ k > Len(a) /\ k <= Len(b)
       \/ k <= Len(a) /\ k <= Len(b) /\ Ord(a[k]) < Ord(b[k])

----------------------------------------------------------------------------
(* Python dict: insertion ordered; a sequence of [key, val] entries *)

Keys(d) == [i \in 1..Len(d) |-> d[i].key]
Has(d, k) == \E i \in 1..Len(d) : d[i].key = k
Get(d, k) == d[CHOOSE i \in 1..Len(d) : d[i].key = k].val
GetOr(d, k, dflt) == IF Has(d, k) THEN Get(d, k) ELSE dflt
Put(d, k, v) ==
  IF Has(d, k)
    THEN [i \in 1..Len(d) |-> IF d[i].key = k THEN [key |-> k, val |-> v] ELSE d[i]]
    ELSE Append(d, [key |-> k, val |-> v])

----------------------------------------------------------------------------
(* math.exp(-min_distance / 100.0) as a fixed-point number, PScale = 1.0 *)

PScale == 10000

ExpTable == <<10000, 9900, 9802, 9704, 9608, 9512, 9418, 9324, 9231, 9139, 9048, 8958, 8869, 8781, 8694, 8607, 8521, 8437, 8353, 8270, 8187, 8106, 8025, 7945, 7866, 7788, 7711, 7634, 7558, 7483, 7408, 7334, 7261, 7189, 7118, 7047, 6977, 6907, 6839, 6771, 6703, 6637, 6570, 6505, 6440, 6376, 6313, 6250, 6188, 6126, 6065, 6005, 5945, 5886, 5827, 5769, 5712, 5655, 5599, 5543, 5488, 5434, 5379, 5326>>

RECURSIVE exp_neg(_)
exp_neg(d) ==
  IF d < Len(ExpTable) THEN ExpTable[d + 1]
  ELSE (ExpTable[Len(ExpTable)] * exp_neg(d - (Len(ExpTable) - 1))) \div PScale

\* float('inf')
INF == 999999

\* None, as the cleaned-up value of an infinite min_distance
None == 0 - 1

----------------------------------------------------------------------------
(* The combined buffer of a document: before + " " + line + " " + after *)

SP == <<" ">>

context_before_text(d) == join(SP, d.context_before)
context_after_text(d) == join(SP, d.context_after)

all_text(d) ==
  LET s1 == IF context_before_text(d) # <<>> THEN context_before_text(d) \o SP ELSE <<>>
      s2 == IF d.line_text # <<>> THEN s1 \o d.line_text \o SP ELSE s1
  IN  IF context_after_text(d) # <<>> THEN s2 \o context_after_text(d) ELSE s2

\* variant: the weights of TopColumnsAnalyzer (before=3, line=3, after=1)
fields_data_scheme_a(d) ==
  << [key |-> "context_before_score", text |-> context_before_text(d), weight |-> 3],
     [key |-> "line_text_score",      text |-> d.line_text,            weight |-> 3],
     [key |-> "context_after_score",  text |-> context_after_text(d),  weight |-> 1] >>

\* fields_data: (field_name, text, weight) with weights before=1, line=3, after=3
fields_data(d) ==
  << [key |-> "context_before_score", text |-> context_before_text(d), weight |-> 1],
     [key |-> "line_text_score",      text |-> d.line_text,            weight |-> 3],
     [key |-> "context_after_score",  text |-> context_after_text(d),  weight |-> 3] >>

\* variant: only the first occurrence of the object is compared
RECURSIVE MinDistanceLoop_first_object(_, _, _, _, _)
MinDistanceLoop_first_object(object_matches, column_matches, i, j, min_distance) ==
  IF i > Min(1, Len(object_matches)) THEN min_distance
  ELSE IF j > Len(column_matches)
         THEN MinDistanceLoop_first_object(object_matches, column_matches, i + 1, 1, min_distance)
         ELSE MinDistanceLoop_first_object(object_matches, column_matches, i, j + 1,
                              Min(min_distance, Abs(object_matches[i] - column_matches[j])))

\* the nested loops over object_matches and column_matches
RECURSIVE MinDistanceLoop(_, _, _, _, _)
MinDistanceLoop(object_matches, column_matches, i, j, min_distance) ==
  IF i > Len(object_matches) THEN min_distance
  ELSE IF j > Len(column_matches)
         THEN MinDistanceLoop(object_matches, column_matches, i + 1, 1, min_distance)
         ELSE MinDistanceLoop(object_matches, column_matches, i, j + 1,
                              Min(min_distance, Abs(object_matches[i] - column_matches[j])))

\* the loop "for field_name, text, weight in fields_data"
RECURSIVE FieldLoop(_, _, _, _, _)
FieldLoop(score, column, fields, proximity_score, i) ==
  IF i > Len(fields) THEN score
  ELSE LET f == fields[i]
           field_mentions == IF f.text = <<>> THEN 0 ELSE Len(finditer(column, upper(f.text)))
           field_score == proximity_score * field_mentions * f.weight
           next == IF field_mentions > 0
                     THEN [score EXCEPT !.total_weighted_score = @ + field_score,
                                        !.total_mentions = @ + field_mentions,
                                        ![f.key] = @ + field_score]
                     ELSE score
       IN  FieldLoop(next, column, fields, proximity_score, i + 1)

----------------------------------------------------------------------------
(* ObjectRelationshipAnalyzer.calculate_column_proximity_in_relationship *)

\* the defaultdict factory of column_scores / aggregated_scores
DefaultScore ==
  [total_weighted_score |-> 0, total_mentions |-> 0, context_before_score |-> 0,
   line_text_score |-> 0, context_after_score |-> 0, best_proximity |-> 0,
   min_distance |-> INF, documents_found_in |-> 0]

\* variant: min_distance is that of the last document
RECURSIVE ColumnLoop_last_distance(_, _, _, _, _, _)
ColumnLoop_last_distance(scores, d, all_text_upper, object_matches, target_columns, ci) ==
  IF ci > Len(target_columns) THEN scores
  ELSE LET column == target_columns[ci]
           column_matches == finditer(column, all_text_upper)
           min_distance == MinDistanceLoop(object_matches, column_matches, 1, 1, INF)
           proximity_score == exp_neg(min_distance)
           old == GetOr(scores, column, DefaultScore)
           upd == [old EXCEPT !.best_proximity = Max(@, proximity_score),
                              !.min_distance = min_distance,
                              !.documents_found_in = @ + 1]
           new == FieldLoop(upd, column, fields_data(d), proximity_score, 1)
       IN  IF column_matches = <<>> \/ min_distance = INF
             THEN ColumnLoop_last_distance(scores, d, all_text_upper, object_matches, target_columns, ci + 1)
             ELSE ColumnLoop_last_distance(Put(scores, column, new), d, all_text_upper, object_matches,
                             target_columns, ci + 1)

\* the loop "for column in target_columns" of one document
RECURSIVE ColumnLoop(_, _, _, _, _, _)
ColumnLoop(scores, d, all_text_upper, object_matches, target_columns, ci) ==
  IF ci > Len(target_columns) THEN scores
  ELSE LET column == target_columns[ci]
           column_matches == finditer(column, all_text_upper)
           min_distance == MinDistanceLoop(object_matches, column_matches, 1, 1, INF)
           proximity_score == exp_neg(min_distance)
           old == GetOr(scores, column, DefaultScore)
           upd == [old EXCEPT !.best_proximity = Max(@, proximity_score),
                              !.min_distance = Min(@, min_distance),
                              !.documents_found_in = @ + 1]
           new == FieldLoop(upd, column, fields_data(d), proximity_score, 1)
       IN  IF column_matches = <<>> \/ min_distance = INF
             THEN ColumnLoop(scores, d, all_text_upper, object_matches, target_columns, ci + 1)
             ELSE ColumnLoop(Put(scores, column, new), d, all_text_upper, object_matches,
                             target_columns, ci + 1)

\* one iteration of "for doc in docs"
calculate_column_proximity_in_relationship(scores, d, target_object, target_columns) ==
  IF all_text(d) = <<>> THEN scores
  ELSE LET all_text_upper == upper(all_text(d))
           object_matches == finditer(target_object, all_text_upper)
       IN  IF object_matches = <<>> THEN scores
           ELSE ColumnLoop(scores, d, all_text_upper, object_matches, target_columns, 1)

----------------------------------------------------------------------------
(* MSDynamicsRelationalColumnsAnalyzer.extract_relational_column_mentions
   and the aggregation loop of analyze_object_relational_columns *)

\* the loop "for column in columns" that fills the per-document column_scores
RECURSIVE ExtractColumnLoop(_, _, _, _, _, _)
ExtractColumnLoop(doc_scores, d, all_text_upper, object_matches, columns, ci) ==
  IF ci > Len(columns) THEN doc_scores
  ELSE LET column == columns[ci]
           column_matches == finditer(column, all_text_upper)
           min_distance == MinDistanceLoop(object_matches, column_matches, 1, 1, INF)
           best_proximity == IF min_distance # INF THEN exp_neg(min_distance) ELSE 0
           entry == [total_weighted_score |-> 0, total_mentions |-> 0,
                     context_before_score |-> 0, line_text_score |-> 0,
                     context_after_score |-> 0, best_proximity |-> best_proximity,
                     min_distance |-> IF min_distance # INF THEN min_distance ELSE None]
           new == FieldLoop(entry, column, fields_data(d), best_proximity, 1)
       IN  IF column_matches = <<>>
             THEN ExtractColumnLoop(doc_scores, d, all_text_upper, object_matches, columns, ci + 1)
             ELSE ExtractColumnLoop(Put(doc_scores, column, new), d, all_text_upper,
                                    object_matches, columns, ci + 1)

\* variant: the early return for a document without the object is missing
extract_relational_column_mentions_no_anchor_check(object_name, columns, d) ==
  IF all_text(d) = <<>> THEN <<>>
  ELSE LET all_text_upper == upper(all_text(d))
           object_matches == finditer(upper(object_name), all_text_upper)
       IN  ExtractColumnLoop(<<>>, d, all_text_upper, object_matches, columns, 1)

extract_relational_column_mentions(object_name, columns, d) ==
  IF all_text(d) = <<>> THEN <<>>
  ELSE LET all_text_upper == upper(all_text(d))
           object_matches == finditer(upper(object_name), all_text_upper)
       IN  IF object_matches = <<>> THEN <<>>
           ELSE ExtractColumnLoop(<<>>, d, all_text_upper, object_matches, columns, 1)

\* variant: best_proximity is that of the last document
RECURSIVE AggregateLoop_last_proximity(_, _, _)
AggregateLoop_last_proximity(aggregated_scores, doc_column_scores, i) ==
  IF i > Len(doc_column_scores) THEN aggregated_scores
  ELSE LET column == doc_column_scores[i].key
           scores == doc_column_scores[i].val
           agg == GetOr(aggregated_scores, column, DefaultScore)
           new == [agg EXCEPT
                     !.total_weighted_score = @ + scores.total_weighted_score,
                     !.total_mentions = @ + scores.total_mentions,
                     !.context_before_score = @ + scores.context_before_score,
                     !.line_text_score = @ + scores.line_text_score,
                     !.context_after_score = @ + scores.context_after_score,
                     !.best_proximity = scores.best_proximity,
                     !.documents_found_in = @ + 1,
                     !.min_distance = IF scores.min_distance # None
                                        THEN Min(@, scores.min_distance) ELSE @]
       IN  AggregateLoop_last_proximity(Put(aggregated_scores, column, new), doc_column_scores, i + 1)

\* the loop "for column, scores in doc_column_scores.items()"
RECURSIVE AggregateLoop(_, _, _)
AggregateLoop(aggregated_scores, doc_column_scores, i) ==
  IF i > Len(doc_column_scores) THEN aggregated_scores
  ELSE LET column == doc_column_scores[i].key
           scores == doc_column_scores[i].val
           agg == GetOr(aggregated_scores, column, DefaultScore)
           new == [agg EXCEPT
                     !.total_weighted_score = @ + scores.total_weighted_score,
                     !.total_mentions = @ + scores.total_mentions,
                     !.context_before_score = @ + scores.context_before_score,
                     !.line_text_score = @ + scores.line_text_score,
                     !.context_after_score = @ + scores.context_after_score,
                     !.best_proximity = Max(@, scores.best_proximity),
                     !.documents_found_in = @ + 1,
                     !.min_distance = IF scores.min_distance # None
                                        THEN Min(@, scores.min_distance) ELSE @]
       IN  AggregateLoop(Put(aggregated_scores, column, new), doc_column_scores, i + 1)

----------------------------------------------------------------------------
(* TopColumnsAnalyzer.extract_column_mentions and the document loop of
   analyze_object_columns (weights before=3, line=3, after=1, no proximity) *)

RECURSIVE MentionLoop(_, _, _, _)
MentionLoop(mentions, text_upper, columns, ci) ==
  IF ci > Len(columns) THEN mentions
  ELSE LET matches == finditer(columns[ci], text_upper)
       IN  IF matches # <<>>
             THEN MentionLoop(Put(mentions, columns[ci], Len(matches)), text_upper, columns, ci + 1)
             ELSE MentionLoop(mentions, text_upper, columns, ci + 1)

\* variant: the text is searched as it is written
extract_column_mentions_case_sensitive(text, columns) ==
  IF text = <<>> \/ columns = <<>> THEN <<>>
  ELSE MentionLoop(<<>>, text, columns, 1)

extract_column_mentions(text, columns) ==
  IF text = <<>> \/ columns = <<>> THEN <<>>
  ELSE MentionLoop(<<>>, upper(text), columns, 1)

DefaultDetails == [context_before |-> 0, line_text |-> 0, context_after |-> 0, total_weighted |-> 0]

\* the loop "for column in columns" of one document; st = [ws, md]
RECURSIVE TopColumnLoop(_, _, _, _, _, _)
TopColumnLoop(st, before_mentions, line_mentions, after_mentions, columns, ci) ==
  IF ci > Len(columns) THEN st
  ELSE LET column == columns[ci]
           before_count == GetOr(before_mentions, column, 0)
           line_count == GetOr(line_mentions, column, 0)
           after_count == GetOr(after_mentions, column, 0)
           weighted_score == (before_count * 3) + (line_count * 3) + (after_count * 1)
           det == GetOr(st.md, column, DefaultDetails)
           new == [ws |-> Put(st.ws, column, GetOr(st.ws, column, 0) + weighted_score),
                   md |-> Put(st.md, column,
                              [det EXCEPT !.context_before = @ + before_count,
                                          !.line_text = @ + line_count,
                                          !.context_after = @ + after_count,
                                          !.total_weighted = @ + weighted_score])]
       IN  TopColumnLoop(IF weighted_score > 0 THEN new ELSE st,
                         before_mentions, line_mentions, after_mentions, columns, ci + 1)

analyze_object_columns_doc(st, d, columns) ==
  TopColumnLoop(st,
                extract_column_mentions(context_before_text(d), columns),
                extract_column_mentions(d.line_text, columns),
                extract_column_mentions(context_after_text(d), columns),
                columns, 1)

----------------------------------------------------------------------------
(* sorted(items, key=..., reverse=True)[:n] and the result that is built *)

\* variant: an entry goes in front of the entries with an equal key (not stable)
InsertDesc_unstable(sorted, e, sortkey) ==
  LET notlarger == {i \in 1..Len(sorted) : sorted[i].sortkey <= sortkey}
      pos == IF notlarger = {} THEN Len(sorted) + 1
             ELSE CHOOSE i \in notlarger : \A j \in notlarger : i <= j
  IN  SubSeq(sorted, 1, pos - 1) \o <<[sortkey |-> sortkey, item |-> e]>>
        \o SubSeq(sorted, pos, Len(sorted))

\* stable: an entry goes behind every entry whose key is not smaller
InsertDesc(sorted, e, sortkey) ==
  LET smaller == {i \in 1..Len(sorted) : sorted[i].sortkey < sortkey}
      pos == IF smaller = {} THEN Len(sorted) + 1
             ELSE CHOOSE i \in smaller : \A j \in smaller : i <= j
  IN  SubSeq(sorted, 1, pos - 1) \o <<[sortkey |-> sortkey, item |-> e]>>
        \o SubSeq(sorted, pos, Len(sorted))

RECURSIVE SortLoop(_, _, _)
SortLoop(sorted, keyed, i) ==
  IF i > Len(keyed) THEN sorted
  ELSE SortLoop(InsertDesc(sorted, keyed[i].item, keyed[i].sortkey), keyed, i + 1)

\* keyed: sequence of [sortkey, item]; the items in descending key order
sorted_reverse(keyed) ==
  LET s == SortLoop(<<>>, keyed, 1) IN [i \in 1..Len(s) |-> s[i].item]

\* variant: one entry too many
Slice_off_by_one(seq, n) == SubSeq(seq, 1, Min(n + 1, Len(seq)))

\* seq[:n]
Slice(seq, n) ==
  IF n >= 0 THEN SubSeq(seq, 1, Min(n, Len(seq)))
  ELSE SubSeq(seq, 1, Max(Len(seq) + n, 0))

\* round(x, 3) of a fixed-point number, in thousandths
round3(x) == (x + 5) \div 10

by_total_weighted_score(scores) ==
  [i \in 1..Len(scores) |-> [sortkey |-> scores[i].val.total_weighted_score, item |-> scores[i]]]

\* the entries appended to result['top_N_columns']
RankEntries(sorted_columns) ==
  [i \in 1..Len(sorted_columns) |->
     [rank |-> i,
      column_name |-> sorted_columns[i].key,
      total_weighted_score |-> round3(sorted_columns[i].val.total_weighted_score),
      total_mentions |-> sorted_columns[i].val.total_mentions,
      context_before_score |-> round3(sorted_columns[i].val.context_before_score),
      line_text_score |-> round3(sorted_columns[i].val.line_text_score),
      context_after_score |-> round3(sorted_columns[i].val.context_after_score),
      best_proximity |-> round3(sorted_columns[i].val.best_proximity),
      min_distance_chars |-> IF sorted_columns[i].val.min_distance = INF
                               THEN None ELSE sorted_columns[i].val.min_distance,
      documents_found_in |-> sorted_columns[i].val.documents_found_in]]

\* variant: no documents give an empty ranking
ranking_result_empty_on_no_documents(scores, n_docs, n) ==
  [error |-> "", columns_with_mentions |-> Len(scores),
   top_columns |-> RankEntries(Slice(sorted_reverse(by_total_weighted_score(scores)), n))]

\* analyze_relationship / analyze_object_relational_columns after the scoring
ranking_result(scores, n_docs, n) ==
  IF n_docs = 0
    THEN [error |-> "No documents found", columns_with_mentions |-> 0, top_columns |-> <<>>]
    ELSE [error |-> "", columns_with_mentions |-> Len(scores),
          top_columns |-> RankEntries(Slice(sorted_reverse(by_total_weighted_score(scores)), n))]

by_weighted_score(ws) ==
  [i \in 1..Len(ws) |-> [sortkey |-> ws[i].val, item |-> ws[i]]]

TopEntries(top_columns, md) ==
  [i \in 1..Len(top_columns) |->
     [rank |-> i,
      column_name |-> top_columns[i].key,
      weighted_score |-> top_columns[i].val,
      context_before_mentions |-> GetOr(md, top_columns[i].key, DefaultDetails).context_before,
      line_text_mentions |-> GetOr(md, top_columns[i].key, DefaultDetails).line_text,
      context_after_mentions |-> GetOr(md, top_columns[i].key, DefaultDetails).context_after,
      total_raw_mentions |-> GetOr(md, top_columns[i].key, DefaultDetails).context_before
                             + GetOr(md, top_columns[i].key, DefaultDetails).line_text
                             + GetOr(md, top_columns[i].key, DefaultDetails).context_after]]

\* TopColumnsAnalyzer.analyze_object_columns after the document loop
top3_result(ws, md, n_docs) ==
  IF n_docs = 0
    THEN [error |-> "No documents found", columns_with_mentions |-> 0, top_columns |-> <<>>]
    ELSE [error |-> "", columns_with_mentions |-> Len(ws),
          top_columns |-> TopEntries(Slice(sorted_reverse(by_weighted_score(ws)), 3), md)]

----------------------------------------------------------------------------
(* One analysis: the documents of the index response are scored one loop
   iteration at a time, then the ranking is built. *)

\* words the text of the documents is made of ("Tc" holds no identifier)
Tokens == { <<"t">>, <<"C">>, <<"D">> }
WindowTokens == Tokens \cup { <<"T", "c">> }

\* a document: a list of words cut into context_before / line_text / context_after
DocsOf(tokens, n) ==
  { [context_before |-> SubSeq(ws, 1, i),
     line_text |-> join(SP, SubSeq(ws, i + 1, j)),
     context_after |-> SubSeq(ws, j + 1, Len(ws))] :
      <<ws, i, j>> \in { x \in (UNION {[1..k -> tokens] : k \in 0..n}) \X (0..n) \X (0..n) :
                           x[2] <= x[3] /\ x[3] <= Len(x[1]) } }

WindowDocs == DocsOf(WindowTokens, MaxWindowWords)

Line(text) == [context_before |-> <<>>, line_text |-> text, context_after |-> <<>>]

\* the documents an index response of a run is made of
RunDocs ==
  { [context_before |-> <<>>, line_text |-> <<"D", " ", "t">>, context_after |-> << <<"C">> >>],
    [context_before |-> << <<"C">> >>, line_text |-> <<"t", " ", "C">>, context_after |-> << <<"C">> >>],
    Line(<<"t", " ", "C", " ", "D">>),
    Line(<<"C", " ", "D", " ", "t", " ", "D", " ", "C">>),
    Line(<<"D", " ", "C", " ", "t", " ", "C", " ", "D">>),
    Line(<<"C", " ", "D">>),
    Line(<<"t">>) }

NoDoc == [context_before |-> <<>>, line_text |-> <<>>, context_after |-> <<>>]
PriorDoc == [context_before |-> <<>>, line_text |-> <<"C", " ", "t">>, context_after |-> << <<"D">> >>]

\* the analysed object (AL object names keep their case) and its columns, in metadata order
ObjectOf(a) == IF a = "msdyn" THEN <<"t">> ELSE <<"T">>

TargetColumns == << <<"D">>, <<"C">>, <<"C", " ", "D">>, <<"D", " ", "C">> >>

\* no script run is going on
NoResponse == [status |-> "none", docs |-> <<>>]

\* no function is called on its own
NoCall == [fn |-> "none"]

IdleRun ==
  /\ metadata_file = [t |-> "null"]
  /\ args = [object1 |-> <<>>, object2 |-> <<>>, top_n |-> 0]
  /\ object_columns = <<>>
  /\ pending = <<>>
  /\ relationships = <<>>
  /\ queries = <<>>
  /\ results = <<>>
  /\ output = <<>>
  /\ exit_status = "running"
  /\ response = NoResponse
  /\ call = NoCall

NoResult == [error |-> "pending", columns_with_mentions |-> 0, top_columns |-> <<>>]

\* the three document loops, one iteration
ScoreOf(a, scores, d) ==
  IF a = "rel"
    THEN calculate_column_proximity_in_relationship(scores, d, ObjectOf(a), TargetColumns)
  ELSE IF a = "msdyn"
    THEN AggregateLoop(scores, extract_relational_column_mentions(ObjectOf(a), TargetColumns, d), 1)
  ELSE scores

TopOf(a, ws, md, d) ==
  IF a = "top" THEN analyze_object_columns_doc([ws |-> ws, md |-> md], d, TargetColumns)
  ELSE [ws |-> ws, md |-> md]

InitScore ==
  /\ analyzer \in {"rel", "msdyn", "top"}
  /\ column_scores = <<>>
  /\ weighted_scores = <<>>
  /\ mention_details = <<>>
  /\ doc = NoDoc
  /\ docs_seen = 0
  /\ top_n = 0
  /\ result = NoResult
  /\ pc = "scoring"
  /\ IdleRun

\* ObjectRelationshipAnalyzer: one iteration of the loop over docs
ScoreDoc(d) ==
  /\ pc = "scoring" /\ analyzer = "rel"
  /\ column_scores' = ScoreOf(analyzer, column_scores, d)
  /\ doc' = d
  /\ docs_seen' = docs_seen + 1
  /\ UNCHANGED <<analyzer, weighted_scores, mention_details, top_n, result, pc>>
  /\ UNCHANGED runVars

\* MSDynamicsRelationalColumnsAnalyzer: one iteration of the loop over documents
AggregateDoc(d) ==
  /\ pc = "scoring" /\ analyzer = "msdyn"
  /\ column_scores' = ScoreOf(analyzer, column_scores, d)
  /\ doc' = d
  /\ docs_seen' = docs_seen + 1
  /\ UNCHANGED <<analyzer, weighted_scores, mention_details, top_n, result, pc>>
  /\ UNCHANGED runVars

\* TopColumnsAnalyzer: one iteration of the loop over documents
CountDoc(d) ==
  /\ pc = "scoring" /\ analyzer = "top"
  /\ LET st == TopOf(analyzer, weighted_scores, mention_details, d)
     IN  weighted_scores' = st.ws /\ mention_details' = st.md
  /\ doc' = d
  /\ docs_seen' = docs_seen + 1
  /\ UNCHANGED <<analyzer, column_scores, top_n, result, pc>>
  /\ UNCHANGED runVars

\* the sort, the truncation to top_n (3 for TopColumnsAnalyzer) and the result
Rank(n) ==
  /\ pc = "scoring"
  /\ top_n' = IF analyzer = "top" THEN 3 ELSE n
  /\ result' = IF analyzer = "top"
                 THEN top3_result(weighted_scores, mention_details, docs_seen)
                 ELSE ranking_result(column_scores, docs_seen, n)
  /\ pc' = "done"
  /\ UNCHANGED <<analyzer, column_scores, weighted_scores, mention_details, doc, docs_seen>>
  /\ UNCHANGED runVars

NextScore ==
  \/ docs_seen < MaxDocs /\ \E d \in RunDocs : ScoreDoc(d)
  \/ docs_seen < MaxDocs /\ \E d \in RunDocs : AggregateDoc(d)
  \/ docs_seen < MaxDocs /\ \E d \in RunDocs : CountDoc(d)
  \/ \E n \in 0..MaxTopN : Rank(n)

SpecScore == InitScore /\ [][NextScore]_vars

----------------------------------------------------------------------------
(* One loop iteration on a document of up to MaxWindowWords words, after a
   first document (an empty one or PriorDoc) has been handled. *)

InitWindow ==
  /\ analyzer \in {"rel", "msdyn", "top"}
  /\ \E p \in {NoDoc, PriorDoc} :
       /\ doc = p
       /\ column_scores = ScoreOf(analyzer, <<>>, p)
       /\ weighted_scores = TopOf(analyzer, <<>>, <<>>, p).ws
       /\ mention_details = TopOf(analyzer, <<>>, <<>>, p).md
  /\ docs_seen = 1
  /\ top_n = 0
  /\ result = NoResult
  /\ pc = "scoring"
  /\ IdleRun

NextWindow ==
  \/ docs_seen = 1 /\ \E d \in WindowDocs : ScoreDoc(d)
  \/ docs_seen = 1 /\ \E d \in WindowDocs : AggregateDoc(d)
  \/ docs_seen = 1 /\ \E d \in WindowDocs : CountDoc(d)

SpecWindow == InitWindow /\ [][NextWindow]_vars

----------------------------------------------------------------------------
(* The same analysis called twice on one analyzer: the documents of the
   index response are the same both times. *)

MaxAgainDocs == 2    \* documents of the response of the repeated analysis

\* the documents the index returns, and the ranking asked for
\* the documents the index returns: those of a run, two that mention one column
\* each, and one in which "C D" begins in context_before and ends in line_text
AgainDocs ==
  RunDocs \cup
  { Line(<<"t", " ", "C">>), Line(<<"t", " ", "D">>),
    [context_before |-> << <<"t", " ", "C">> >>, line_text |-> <<"D">>, context_after |-> <<>>] }

AgainCalls ==
  [fn : {"analyze_again"}, docs : UNION {[1..k -> AgainDocs] : k \in 0..MaxAgainDocs},
   top_n : {1, MaxTopN}, first : {NoResult}]

InitAgain ==
  /\ analyzer \in {"rel", "msdyn", "top"}
  /\ call \in AgainCalls
  /\ column_scores = <<>>
  /\ weighted_scores = <<>>
  /\ mention_details = <<>>
  /\ doc = NoDoc
  /\ docs_seen = 0
  /\ top_n = 0
  /\ result = NoResult
  /\ pc = "scoring"
  /\ metadata_file = [t |-> "null"]
  /\ args = [object1 |-> <<>>, object2 |-> <<>>, top_n |-> 0]
  /\ object_columns = <<>>
  /\ pending = <<>>
  /\ relationships = <<>>
  /\ queries = <<>>
  /\ results = <<>>
  /\ output = <<>>
  /\ exit_status = "running"
  /\ response = NoResponse

\* variant: the second call goes on with the accumulators of the first
AnalyzeAgain_on_old_accumulators ==
  /\ pc = "done" /\ call.fn = "analyze_again" /\ call.first = NoResult
  /\ call' = [call EXCEPT !.first = result]
  /\ UNCHANGED <<column_scores, weighted_scores, mention_details>>
  /\ doc' = NoDoc
  /\ docs_seen' = 0
  /\ result' = NoResult
  /\ pc' = "scoring"
  /\ UNCHANGED <<analyzer, top_n, metadata_file, args, object_columns, pending, relationships,
                 queries, results, output, exit_status, response>>

\* the analysis is called again: its accumulators are new local dicts
AnalyzeAgain ==
  /\ pc = "done" /\ call.fn = "analyze_again" /\ call.first = NoResult
  /\ call' = [call EXCEPT !.first = result]
  /\ column_scores' = <<>>
  /\ weighted_scores' = <<>>
  /\ mention_details' = <<>>
  /\ doc' = NoDoc
  /\ docs_seen' = 0
  /\ result' = NoResult
  /\ pc' = "scoring"
  /\ UNCHANGED <<analyzer, top_n, metadata_file, args, object_columns, pending, relationships,
                 queries, results, output, exit_status, response>>

\* the documents in another order
Permuted(docs) ==
  { [i \in 1..Len(docs) |-> docs[f[i]]] :
      f \in {g \in [1..Len(docs) -> 1..Len(docs)] : \A i, j \in 1..Len(docs) : g[i] = g[j] => i = j} }

\* the analysis is called again and the index returns the same documents in
\* another order
AnalyzePermuted(docs) ==
  /\ pc = "done" /\ call.fn = "analyze_again" /\ call.first = NoResult
  /\ docs \in Permuted(call.docs) /\ docs # call.docs
  /\ call' = [fn |-> "analyze_permuted", docs |-> docs, top_n |-> call.top_n, first |-> result,
              first_scores |-> [column_scores |-> column_scores,
                                weighted_scores |-> weighted_scores,
                                mention_details |-> mention_details]]
  /\ column_scores' = <<>>
  /\ weighted_scores' = <<>>
  /\ mention_details' = <<>>
  /\ doc' = NoDoc
  /\ docs_seen' = 0
  /\ result' = NoResult
  /\ pc' = "scoring"
  /\ UNCHANGED <<analyzer, top_n, metadata_file, args, object_columns, pending, relationships,
                 queries, results, output, exit_status, response>>

NextAgain ==
  \/ docs_seen < Len(call.docs) /\ ScoreDoc(call.docs[docs_seen + 1])
  \/ docs_seen < Len(call.docs) /\ AggregateDoc(call.docs[docs_seen + 1])
  \/ docs_seen < Len(call.docs) /\ CountDoc(call.docs[docs_seen + 1])
  \/ docs_seen = Len(call.docs) /\ Rank(call.top_n)
  \/ AnalyzeAgain
  \/ \E docs \in Permuted(call.docs) : AnalyzePermuted(docs)

SpecAgain == InitAgain /\ [][NextAgain]_vars

----------------------------------------------------------------------------
(* MSDynamicsTopColumnsAnalyzer: the column mentions of a text, counted with
   three patterns *)

\* len(re.findall(literal [+ \b], text)) from offset i on: matches do not overlap
RECURSIVE CountLiteral(_, _, _, _)
CountLiteral(literal, text, i, word_end) ==
  IF i + Len(literal) > Len(text) THEN 0
  ELSE IF /\ \A k \in 1..Len(literal) : text[i + k] = literal[k]
          /\ word_end => WordBoundary(text, i + Len(literal))
         THEN 1 + CountLiteral(literal, text, i + Len(literal), word_end)
         ELSE CountLiteral(literal, text, i + 1, word_end)

\* the three patterns: \bCOLUMN\b, "COLUMN", \.COLUMN\b
al_total_matches(column, text_upper) ==
  Len(finditer(column, text_upper))
    + CountLiteral(<<"\"">> \o column \o <<"\"">>, text_upper, 0, FALSE)
    + CountLiteral(<<".">> \o column, text_upper, 0, TRUE)

RECURSIVE ALMentionLoop(_, _, _, _)
ALMentionLoop(mentions, text_upper, columns, ci) ==
  IF ci > Len(columns) THEN mentions
  ELSE LET total_matches == al_total_matches(columns[ci], text_upper)
       IN  IF total_matches > 0
             THEN ALMentionLoop(Put(mentions, columns[ci], total_matches), text_upper, columns, ci + 1)
             ELSE ALMentionLoop(mentions, text_upper, columns, ci + 1)

al_extract_column_mentions(text, columns) ==
  IF text = <<>> \/ columns = <<>> THEN <<>>
  ELSE ALMentionLoop(<<>>, upper(text), columns, 1)

\* MSDynamicsTopColumnsAnalyzer.analyze_object_columns: one document
al_analyze_object_columns_doc(st, d, columns) ==
  TopColumnLoop(st,
                al_extract_column_mentions(context_before_text(d), columns),
                al_extract_column_mentions(d.line_text, columns),
                al_extract_column_mentions(context_after_text(d), columns),
                columns, 1)

\* the loader keeps the column names of more than two characters
valid_columns(columns) == SelectSeq(columns, LAMBDA col : Len(col) > 2)

----------------------------------------------------------------------------
(* One window of the object EMPLOYEES with the columns ID, SALARY and NAME,
   scored by each of the analyzers from empty accumulators *)

EMPLOYEES == <<"E", "M", "P", "L", "O", "Y", "E", "E", "S">>
ID == <<"I", "D">>
SALARY == <<"S", "A", "L", "A", "R", "Y">>
NAME == <<"N", "A", "M", "E">>

\* the words of a window
ExampleLines ==
  { <<<<"S", "E", "L", "E", "C", "T">>, <<"S", "A", "L", "A", "R", "Y">>, <<"F", "R", "O", "M">>, <<"E", "M", "P", "L", "O", "Y", "E", "E", "S">>>>,
    <<<<"s", "e", "l", "e", "c", "t">>, <<"s", "a", "l", "a", "r", "y">>, <<"f", "r", "o", "m">>, <<"e", "m", "p", "l", "o", "y", "e", "e", "s">>>>,
    <<<<"S", "E", "L", "E", "C", "T">>, <<"S", "A", "L", "A", "R", "Y", "_", "I", "D">>, <<"F", "R", "O", "M">>, <<"E", "M", "P", "L", "O", "Y", "E", "E", "S">>>>,
    <<<<"S", "E", "L", "E", "C", "T">>, <<"\"", "S", "A", "L", "A", "R", "Y", "\"">>, <<"F", "R", "O", "M">>, <<"E", "M", "P", "L", "O", "Y", "E", "E", "S">>>>,
    <<<<"S", "E", "L", "E", "C", "T">>, <<"E", ".", "S", "A", "L", "A", "R", "Y">>, <<"F", "R", "O", "M">>, <<"E", "M", "P", "L", "O", "Y", "E", "E", "S">>>>,
    <<<<"E", "M", "P", "L", "O", "Y", "E", "E", "S">>, <<"N", "A", "M", "E">>, <<"S", "A", "L", "A", "R", "Y">>, <<"E", "M", "P", "L", "O", "Y", "E", "E", "S">>, <<"S", "A", "L", "A", "R", "Y">>>>,
    <<<<"S", "E", "L", "E", "C", "T">>, <<"N", "A", "M", "E">>, <<"F", "R", "O", "M">>, <<"D", "U", "A", "L">>>>,
    <<<<"N", "A", "M", "E">>, <<"S", "A", "L", "A", "R", "Y">>, <<"E", "M", "P", "L", "O", "Y", "E", "E", "S">>, <<"S", "A", "L", "A", "R", "Y">>>> }

\* the words of a line cut into context_before / line_text / context_after
ExampleDocs ==
  { [context_before |-> IF i = 0 THEN <<>> ELSE <<join(SP, SubSeq(ws, 1, i))>>,
     line_text |-> join(SP, SubSeq(ws, i + 1, j)),
     context_after |-> IF j = Len(ws) THEN <<>> ELSE <<join(SP, SubSeq(ws, j + 1, Len(ws)))>>] :
      <<ws, i, j>> \in { x \in ExampleLines \X (0..5) \X (0..5) : x[2] <= x[3] /\ x[3] <= Len(x[1]) } }

ExampleCalls ==
  [fn : {"score_window"}, object : {EMPLOYEES}, columns : {<<ID, SALARY, NAME>>}, doc : ExampleDocs]

InitExample ==
  /\ analyzer \in {"rel", "msdyn", "top", "msdyn_top"}
  /\ call \in ExampleCalls
  /\ column_scores = <<>>
  /\ weighted_scores = <<>>
  /\ mention_details = <<>>
  /\ doc = NoDoc
  /\ docs_seen = 0
  /\ top_n = 0
  /\ result = NoResult
  /\ pc = "call"
  /\ metadata_file = [t |-> "null"]
  /\ args = [object1 |-> <<>>, object2 |-> <<>>, top_n |-> 0]
  /\ object_columns = <<>>
  /\ pending = <<>>
  /\ relationships = <<>>
  /\ queries = <<>>
  /\ results = <<>>
  /\ output = <<>>
  /\ exit_status = "running"
  /\ response = NoResponse

\* one iteration of the document loop of the analyzer, on the window of the call
ScoreWindow ==
  /\ pc = "call" /\ call.fn = "score_window"
  /\ column_scores' =
       IF analyzer = "rel"
         THEN calculate_column_proximity_in_relationship(<<>>, call.doc, call.object, call.columns)
       ELSE IF analyzer = "msdyn"
         THEN AggregateLoop(<<>>, extract_relational_column_mentions(call.object, call.columns,
                                                                     call.doc), 1)
       ELSE <<>>
  /\ LET st == IF analyzer = "top"
                 THEN analyze_object_columns_doc([ws |-> <<>>, md |-> <<>>], call.doc, call.columns)
               ELSE IF analyzer = "msdyn_top"
                 THEN al_analyze_object_columns_doc([ws |-> <<>>, md |-> <<>>], call.doc,
                                                    valid_columns(call.columns))
               ELSE [ws |-> <<>>, md |-> <<>>]
     IN  weighted_scores' = st.ws /\ mention_details' = st.md
  /\ doc' = call.doc
  /\ docs_seen' = 1
  /\ pc' = "done"
  /\ UNCHANGED <<analyzer, top_n, result, call, metadata_file, args, object_columns, pending,
                 relationships, queries, results, output, exit_status, response>>

NextExample == ScoreWindow

SpecExample == InitExample /\ [][NextExample]_vars

----------------------------------------------------------------------------
(* One run of a script: main() loads the metadata file, then analyses one
   object or pair, or all of them.  A JSON value of the metadata file is
   [t |-> "invalid"] (no file, or no JSON), null, a number, a string, a list
   or a dict (its items in file order).  Keys and strings are character
   sequences. *)

JInvalid == [t |-> "invalid"]
JNull == [t |-> "null"]
JNum == [t |-> "num"]
JStr(s) == [t |-> "str", s |-> s]
JList(items) == [t |-> "list", items |-> items]
JDict(items) == [t |-> "dict", items |-> items]

OBJECT_NAME == <<"o", "b", "j", "e", "c", "t", "_", "n", "a", "m", "e">>
COLUMN_NAME == <<"c", "o", "l", "u", "m", "n", "_", "n", "a", "m", "e">>
COLUMNS == <<"c", "o", "l", "u", "m", "n", "s">>

\* for x in v: a list gives its items, a dict its keys, a string its characters
Iterable(v) == v.t \in {"list", "dict", "str"}
Iter(v) ==
  IF v.t = "list" THEN v.items
  ELSE IF v.t = "dict" THEN [i \in 1..Len(v.items) |-> JStr(v.items[i].key)]
  ELSE [i \in 1..Len(v.s) |-> JStr(<<v.s[i]>>)]

\* item.get(k, default) of a dict
JGet(v, k, dflt) == GetOr(v.items, k, dflt)

\* bool(v)
Truthy(v) ==
  IF v.t = "str" THEN v.s # <<>>
  ELSE IF v.t \in {"list", "dict"} THEN v.items # <<>>
  ELSE v.t = "num"

\* the except branch: load_object_metadata returns False
LoadFailed == [ok |-> FALSE, object_columns |-> <<>>]

\* Oracle scripts: a flat list of {object_name, column_name} records, names
\* uppercased, the columns grouped by object
RECURSIVE OracleLoadLoop(_, _, _)
OracleLoadLoop(oc, items, i) ==
  IF i > Len(items) THEN [ok |-> TRUE, object_columns |-> oc]
  ELSE IF items[i].t # "dict" THEN LoadFailed
  ELSE
    LET o == JGet(items[i], OBJECT_NAME, JStr(<<>>))
        c == JGet(items[i], COLUMN_NAME, JStr(<<>>))
    IN  IF o.t # "str" \/ c.t # "str" THEN LoadFailed
        ELSE IF upper(o.s) = <<>> \/ upper(c.s) = <<>> THEN OracleLoadLoop(oc, items, i + 1)
        ELSE LET have == GetOr(oc, upper(o.s), <<>>)
             IN  OracleLoadLoop(
                   Put(oc, upper(o.s),
                       IF upper(c.s) \in Range(have) THEN have ELSE Append(have, upper(c.s))),
                   items, i + 1)

load_object_metadata(file) ==
  IF file.t = "invalid" \/ ~Iterable(file) THEN LoadFailed
  ELSE OracleLoadLoop(<<>>, Iter(file), 1)

\* [col.upper() for col in object_info['columns']]
RECURSIVE UpperColumns(_, _)
UpperColumns(cols, i) ==
  IF i > Len(cols) THEN [ok |-> TRUE, columns |-> <<>>]
  ELSE IF cols[i].t # "str" THEN [ok |-> FALSE, columns |-> <<>>]
  ELSE LET rest == UpperColumns(cols, i + 1)
       IN  [ok |-> rest.ok, columns |-> <<upper(cols[i].s)>> \o rest.columns]

\* AL scripts: a dict {object_name: {columns: [...]}}, object names as
\* written, columns uppercased; entries of another shape are passed over
RECURSIVE ALLoadLoop(_, _, _)
ALLoadLoop(oc, items, i) ==
  IF i > Len(items) THEN [ok |-> TRUE, object_columns |-> oc]
  ELSE
    LET info == items[i].val
    IN  IF info.t # "dict" \/ ~Has(info.items, COLUMNS) THEN ALLoadLoop(oc, items, i + 1)
        ELSE IF ~Iterable(Get(info.items, COLUMNS)) THEN LoadFailed
        ELSE LET cols == UpperColumns(Iter(Get(info.items, COLUMNS)), 1)
             IN  IF ~cols.ok THEN LoadFailed
                 ELSE ALLoadLoop(Put(oc, items[i].key, cols.columns), items, i + 1)

al_load_object_metadata(file) ==
  IF file.t # "dict" THEN LoadFailed
  ELSE ALLoadLoop(<<>>, file.items, 1)

\* ObjectRelationAnalyzer: the flat list again, names as written, no
\* except branch: an error propagates to main (names in the files of this
\* model are strings or null)
RECURSIVE RelationLoadLoop(_, _, _)
RelationLoadLoop(oc, items, i) ==
  IF i > Len(items) THEN [ok |-> TRUE, object_columns |-> oc]
  ELSE IF items[i].t # "dict" THEN LoadFailed
  ELSE
    LET o == JGet(items[i], OBJECT_NAME, JStr(<<>>))
        c == JGet(items[i], COLUMN_NAME, JStr(<<>>))
    IN  IF ~Truthy(o) \/ ~Truthy(c) THEN RelationLoadLoop(oc, items, i + 1)
        ELSE RelationLoadLoop(Put(oc, o.s, Append(GetOr(oc, o.s, <<>>), c.s)), items, i + 1)

relation_load_object_metadata(file) ==
  IF file.t = "invalid" \/ ~Iterable(file) THEN LoadFailed
  ELSE RelationLoadLoop(<<>>, Iter(file), 1)

----------------------------------------------------------------------------
(* The search index: what it answers to one request *)

ConnectionError == [status |-> "connection_error", docs |-> <<>>]
HttpError == [status |-> "http_error", docs |-> <<>>]
Found(docs) == [status |-> "ok", docs |-> docs]

PlainDoc == Line(<<"t">>)

Responses ==
  { ConnectionError, HttpError, Found(<<>>), Found(<<PlainDoc>>), Found(<<PriorDoc, PlainDoc>>) }

\* response.json()['response']['numFound']
numFound(resp) == Len(resp.docs)

Query(kind, a, b) == [kind |-> kind, object1 |-> a, object2 |-> b]

\* what one call of an analysis gives: its return value, the requests it
\* sent, and whether it ended in an exception instead of returning
Outcome(r, qs, exc) == [result |-> r, queries |-> qs, raised |-> exc]

NotFound == [error |-> "not found in metadata", columns_with_mentions |-> 0, top_columns |-> <<>>]

----------------------------------------------------------------------------
(* TopColumnsAnalyzer and MSDynamicsRelationalColumnsAnalyzer: one object *)

\* try: requests.get, raise_for_status, docs; except: []
search_object_documents(resp) ==
  [raised |-> FALSE, docs |-> IF resp.status = "ok" THEN resp.docs ELSE <<>>]

RECURSIVE TopDocLoop(_, _, _, _)
TopDocLoop(st, documents, i, columns) ==
  IF i > Len(documents) THEN st
  ELSE TopDocLoop(analyze_object_columns_doc(st, documents[i], columns), documents, i + 1, columns)

analyze_object_columns(oc, object_name, resp) ==
  IF ~Has(oc, object_name) THEN Outcome(NotFound, <<>>, FALSE)
  ELSE
    LET found == search_object_documents(resp)
        st == TopDocLoop([ws |-> <<>>, md |-> <<>>], found.docs, 1, Get(oc, object_name))
    IN  Outcome(IF found.raised THEN NoResult ELSE top3_result(st.ws, st.md, Len(found.docs)),
                <<Query("object", object_name, <<>>)>>, found.raised)

\* for obj in keys: if obj.upper() == object_name.upper(): ...; break
FirstKeyIgnoringCase(oc, name) ==
  LET hits == {i \in 1..Len(oc) : upper(oc[i].key) = upper(name)}
  IN  IF hits = {} THEN <<>> ELSE oc[CHOOSE i \in hits : \A j \in hits : i <= j].key

\* the same loop without the break
LastKeyIgnoringCase(oc, name) ==
  LET hits == {i \in 1..Len(oc) : upper(oc[i].key) = upper(name)}
  IN  IF hits = {} THEN <<>> ELSE oc[CHOOSE i \in hits : \A j \in hits : i >= j].key

RECURSIVE ALDocLoop(_, _, _, _, _)
ALDocLoop(scores, documents, i, object_name, columns) ==
  IF i > Len(documents) THEN scores
  ELSE ALDocLoop(
         AggregateLoop(scores, extract_relational_column_mentions(object_name, columns, documents[i]), 1),
         documents, i + 1, object_name, columns)

\* variant: the analysis goes on with a name that matches no key
analyze_object_relational_columns_unchecked(oc, object_name, n, resp) ==
  LET actual_object_name == FirstKeyIgnoringCase(oc, object_name)
      found == search_object_documents(resp)
      scores == ALDocLoop(<<>>, found.docs, 1, object_name, GetOr(oc, actual_object_name, <<>>))
  IN  Outcome(ranking_result(scores, Len(found.docs), n),
              <<Query("object", object_name, <<>>)>>, FALSE)

analyze_object_relational_columns(oc, object_name, n, resp) ==
  LET actual_object_name == FirstKeyIgnoringCase(oc, object_name)
  IN  IF actual_object_name = <<>> THEN Outcome(NotFound, <<>>, FALSE)
      ELSE
        LET found == search_object_documents(resp)
            scores == ALDocLoop(<<>>, found.docs, 1, actual_object_name, Get(oc, actual_object_name))
        IN  Outcome(ranking_result(scores, Len(found.docs), n),
                    <<Query("object", actual_object_name, <<>>)>>, FALSE)

----------------------------------------------------------------------------
(* ObjectRelationshipAnalyzer (Oracle) and MSDynamicsObjectRelationshipAnalyzer:
   one pair *)

\* requests.get outside any try: a connection error is raised to the caller;
\* another status than 200 gives []
get_relationship_documents(resp) ==
  [raised |-> resp.status = "connection_error",
   docs |-> IF resp.status = "ok" THEN resp.docs ELSE <<>>]

\* the same request inside try/except: every failure gives []
al_get_relationship_documents(resp) ==
  [raised |-> FALSE, docs |-> IF resp.status = "ok" THEN resp.docs ELSE <<>>]

RECURSIVE RelDocLoop(_, _, _, _, _)
RelDocLoop(scores, docs, i, target_object, target_columns) ==
  IF i > Len(docs) THEN scores
  ELSE RelDocLoop(
         calculate_column_proximity_in_relationship(scores, docs[i], target_object, target_columns),
         docs, i + 1, target_object, target_columns)

analyze_relationship(oc, object1, object2, n, resp) ==
  IF ~Has(oc, object1) THEN Outcome(NotFound, <<>>, FALSE)
  ELSE
    LET got == get_relationship_documents(resp)
        scores == RelDocLoop(<<>>, got.docs, 1, object1, Get(oc, object1))
    IN  Outcome(IF got.raised THEN NoResult ELSE ranking_result(scores, Len(got.docs), n),
                <<Query("pair_documents", object1, object2)>>, got.raised)

al_analyze_relationship(oc, object1, object2, n, resp) ==
  LET actual_object1 == LastKeyIgnoringCase(oc, object1)
      actual_object2 == LastKeyIgnoringCase(oc, object2)
  IN  IF actual_object1 = <<>> \/ actual_object2 = <<>> THEN Outcome(NotFound, <<>>, FALSE)
      ELSE
        LET got == al_get_relationship_documents(resp)
            scores == RelDocLoop(<<>>, got.docs, 1, upper(actual_object1), Get(oc, actual_object1))
        IN  Outcome(ranking_result(scores, Len(got.docs), n),
                    <<Query("pair_documents", actual_object1, actual_object2)>>, FALSE)

----------------------------------------------------------------------------
(* ObjectRelationAnalyzer: one pair.  Every request of the call is inside
   try/except and gives count 0 on a failure.  Scores are in thousandths
   where the code rounds them to three decimals, the sum of the weighted
   components is in ten-thousandths. *)

MinScore == 100          \* --min-score 0.1, in thousandths
MaxColumns == 5          \* [:5]
MaxCross == 10           \* max_cross_relationships

\* list(a set): the elements in some order
Orders(S) ==
  {f \in [1..Cardinality(S) -> S] : \A i, j \in 1..Cardinality(S) : i # j => f[i] # f[j]}

\* the distinct elements of a sequence in the order of their first occurrence
\* (the keys of a dict filled in that order)
RECURSIVE Distinct(_)
Distinct(s) ==
  IF s = <<>> THEN <<>>
  ELSE LET r == Distinct(SubSeq(s, 1, Len(s) - 1))
       IN  IF s[Len(s)] \in Range(r) THEN r ELSE Append(r, s[Len(s)])

\* round(num / den) to the nearest integer; at a tie the binary value of
\* the float decides, which is either way
round_nearest(num, den, up) ==
  IF 2 * (num % den) = den THEN (num \div den) + (IF up THEN 1 ELSE 0)
  ELSE (2 * num + den) \div (2 * den)

search_object_cooccurrence(resp) ==
  [success |-> resp.status = "ok", count |-> IF resp.status = "ok" THEN numFound(resp) ELSE 0]

\* set(cols1).intersection(set(cols2)): the column names both objects have,
\* compared as they are written
exact_matches(cols1, cols2) == Range(cols1) \cap Range(cols2)

\* variant: twice the columns of the first object
total_columns_of_first(cols1, cols2) == 2 * Cardinality(Range(cols1))

\* len(cols1) + len(cols2) of the two sets
total_columns(cols1, cols2) == Cardinality(Range(cols1)) + Cardinality(Range(cols2))

\* variant: the columns are counted as listed, repeats included
find_column_matches_listwise(oc, object1, object2, exact, up) ==
  LET cols1 == GetOr(oc, object1, <<>>)
      cols2 == GetOr(oc, object2, <<>>)
      listed == Len(cols1) + Len(cols2)
  IN  IF cols1 = <<>> \/ cols2 = <<>>
        THEN [object1_columns |-> Len(cols1), object2_columns |-> Len(cols2),
              exact_matches |-> <<>>, match_score |-> 0]
      ELSE [object1_columns |-> Len(cols1), object2_columns |-> Len(cols2),
            exact_matches |-> exact,
            match_score |-> round_nearest(2000 * Len(exact), listed, up)]

\* exact: list(...) of the common columns, in the order of the hash table;
\* match_score in thousandths
find_column_matches(oc, object1, object2, exact, up) ==
  LET cols1 == GetOr(oc, object1, <<>>)
      cols2 == GetOr(oc, object2, <<>>)
  IN  IF cols1 = <<>> \/ cols2 = <<>>
        THEN [object1_columns |-> Cardinality(Range(cols1)),
              object2_columns |-> Cardinality(Range(cols2)),
              exact_matches |-> <<>>, match_score |-> 0]
      ELSE [object1_columns |-> Cardinality(Range(cols1)),
            object2_columns |-> Cardinality(Range(cols2)),
            exact_matches |-> exact,
            match_score |-> round_nearest(2000 * Len(exact), total_columns(cols1, cols2), up)]

\* the pairs of different column names the cross-column loop asks the index for
RECURSIVE CrossPairs(_, _, _, _)
CrossPairs(cols1, cols2, i, j) ==
  IF i > Len(cols1) THEN <<>>
  ELSE IF j > Len(cols2) THEN CrossPairs(cols1, cols2, i + 1, 1)
  ELSE (IF cols1[i] # cols2[j] THEN << <<cols1[i], cols2[j]>> >> ELSE <<>>)
         \o CrossPairs(cols1, cols2, i, j + 1)

\* variant: no limit on the number of requests
cross_pairs_unlimited(cols1, cols2) ==
  CrossPairs(Slice(cols1, MaxColumns), Slice(cols2, MaxColumns), 1, 1)

cross_pairs(cols1, cols2) ==
  Slice(CrossPairs(Slice(cols1, MaxColumns), Slice(cols2, MaxColumns), 1, 1), MaxCross)

\* the arguments (with the caps applied) whose sum of weighted components is,
\* as a float, 0.39999999999999997 although the components add up to 0.4:
\* 0.7 * 0.4 is 0.27999999999999997
float_sum_below(cooccurrence, column_score, n_exact, n_cross) ==
  <<Min(cooccurrence, 10), column_score, Min(n_exact, 5), Min(n_cross, 2)>>
    \in { <<7, 0, 3, 0>>, <<7, 100, 2, 1>>, <<7, 400, 0, 0>> }

\* variant: no cap on the cross-column bonus
cross_column_score_uncapped(n_cross) == 100 * n_cross

\* min(len(cross_column_relationships) / 10, 0.2), in thousandths
cross_column_score(n_cross) == IF n_cross > 0 THEN Min(100 * n_cross, 200) ELSE 0

\* the level of a sum of weighted components (in ten-thousandths) that as a
\* float is just below the sum (below) or is the sum
relationship_level(overall, below) ==
  LET at_least(t) == overall > t \/ (overall = t /\ ~below)
  IN  IF at_least(7000) THEN "STRONG"
      ELSE IF at_least(4000) THEN "MODERATE"
      ELSE IF at_least(1000) THEN "WEAK"
      ELSE "MINIMAL"

\* variant: the four components weigh the same
calculate_relationship_strength_unweighted(cooccurrence, column_score, n_exact, n_cross, up) ==
  LET cooccurrence_score == 100 * Min(cooccurrence, 10)
      column_match_score == 200 * Min(n_exact, 5)
      overall == (10 * (cooccurrence_score + column_score + column_match_score
                          + cross_column_score(n_cross))) \div 4
  IN  [overall_score |-> round_nearest(overall, 10, up),
       level |-> relationship_level(overall, FALSE),
       components |-> [cooccurrence_score |-> cooccurrence_score,
                       column_score |-> column_score,
                       exact_match_score |-> column_match_score,
                       cross_column_score |-> cross_column_score(n_cross)]]

\* column_score in thousandths; overall in ten-thousandths before it is rounded
calculate_relationship_strength(cooccurrence, column_score, n_exact, n_cross, up) ==
  LET cooccurrence_score == 100 * Min(cooccurrence, 10)
      column_match_score == 200 * Min(n_exact, 5)
      overall == 4 * cooccurrence_score + 3 * column_score + 2 * column_match_score
                   + cross_column_score(n_cross)
  IN  [overall_score |-> round_nearest(overall, 10, up),
       level |-> relationship_level(overall,
                   float_sum_below(cooccurrence, column_score, n_exact, n_cross)),
       components |-> [cooccurrence_score |-> cooccurrence_score,
                       column_score |-> column_score,
                       exact_match_score |-> column_match_score,
                       cross_column_score |-> cross_column_score(n_cross)]]

\* linked: the pairs of column names the index has documents of (the
\* co-occurrence request of the pair finds count > 0)
relation_analyze_relationship(oc, object1, object2, resp, linked, exact, up) ==
  IF ~Has(oc, object1) \/ ~Has(oc, object2)
    THEN Outcome([error |-> "not found in metadata", success |-> FALSE,
                  cooccurrence_count |-> 0, overall_score |-> 0], <<>>, FALSE)
  ELSE
    LET cooccurrence == search_object_cooccurrence(resp)
        column_analysis == find_column_matches(oc, object1, object2, exact, up)
        cols1 == Get(oc, object1)
        cols2 == Get(oc, object2)
        first == Slice(column_analysis.exact_matches, MaxColumns)
        cross == cross_pairs(cols1, cols2)
        cross_column_relationships ==
          Distinct(SelectSeq(cross, LAMBDA p : resp.status = "ok" /\ p \in linked))
        relationship_strength ==
          calculate_relationship_strength(cooccurrence.count, column_analysis.match_score,
                                          Len(column_analysis.exact_matches),
                                          Len(cross_column_relationships), up)
    IN  Outcome([error |-> "", success |-> TRUE,
                 object1 |-> object1, object2 |-> object2,
                 cooccurrence_count |-> cooccurrence.count,
                 exact_matches |-> column_analysis.exact_matches,
                 match_score |-> column_analysis.match_score,
                 cross_column_relationships |-> cross_column_relationships,
                 overall_score |-> relationship_strength.overall_score,
                 level |-> relationship_strength.level,
                 components |-> relationship_strength.components],
                <<Query("cooccurrence", object1, object2)>>
                  \o [k \in 1..(3 * Len(first)) |->
                        Query("column", first[(k + 2) \div 3], first[(k + 2) \div 3])]
                  \o [k \in 1..Len(cross) |-> Query("cross_column", cross[k][1], cross[k][2])],
                FALSE)

\* the index answers the requests of one call alike: every pair of columns
\* is linked if the objects are.  The objects of the metadata files of the
\* runs share at most one column and no score of theirs is at a rounding tie.
relation_analyze_relationship_alike(oc, object1, object2, resp) ==
  LET cols1 == GetOr(oc, object1, <<>>)
      cols2 == GetOr(oc, object2, <<>>)
      linked == IF search_object_cooccurrence(resp).count > 0
                  THEN Range(cross_pairs(cols1, cols2)) ELSE {}
  IN  relation_analyze_relationship(oc, object1, object2, resp, linked,
                                    CHOOSE exact \in Orders(exact_matches(cols1, cols2)) : TRUE,
                                    TRUE)

----------------------------------------------------------------------------
(* main() of the five scripts *)

Scripts == {"top", "msdyn", "rel", "msdyn_rel", "relation"}
PairScript(a) == a \in {"rel", "msdyn_rel", "relation"}

MinCooccurrence == 2     \* --min-cooccurrence
TopColumns == 3          \* TopColumnsAnalyzer: [:3]

Rec(o, c) == JDict(<< [key |-> OBJECT_NAME, val |-> o], [key |-> COLUMN_NAME, val |-> c] >>)
Table(cols) == JDict(<< [key |-> COLUMNS, val |-> cols] >>)

\* a flat list, one record per column
OracleFile ==
  JList(<< Rec(JStr(<<"T">>), JStr(<<"c">>)), Rec(JStr(<<"T">>), JStr(<<"D">>)),
           Rec(JStr(<<"u">>), JStr(<<"C">>)), Rec(JStr(<<"V">>), JStr(<<"D">>)) >>)

\* a dict, one entry per AL table
ALFile ==
  JDict(<< [key |-> <<"t">>, val |-> Table(JList(<< JStr(<<"c">>), JStr(<<"D">>) >>))],
           [key |-> <<"U">>, val |-> Table(JList(<< JStr(<<"C">>) >>))],
           [key |-> <<"V">>, val |-> Table(JList(<< JStr(<<"D">>) >>))] >>)

OtherRecord == JDict(<< [key |-> <<"n", "a", "m", "e">>, val |-> JStr(<<"T">>)] >>)

\* the metadata files of the model: the two shapes, and files that are not
\* of the shape the script reads
Files ==
  { OracleFile, ALFile, JInvalid, JNum, JDict(<<>>),
    JList(<< OtherRecord >>),
    JList(<< Rec(JStr(<<"T">>), JStr(<<"C">>)), OtherRecord >>),
    JList(<< Rec(JNull, JStr(<<"C">>)) >>),
    JList(<< JStr(<<"T">>) >>),
    JDict(<< [key |-> <<"t">>, val |-> Table(JList(<< JStr(<<"C">>) >>))],
             [key |-> <<"U">>, val |-> JStr(<<"x">>)] >>),
    JDict(<< [key |-> <<"t">>, val |-> Table(JNum)] >>) }

\* object names on the command line; <<>> when the option is not given
Names == { <<"T">>, <<"t">>, <<"u">>, <<"X">> }

\* the object names the index has documents of (facet of object_name)
IndexedObjects == { <<"T">>, <<"u">>, <<"V">> }

LoadOf(a, file) ==
  IF a \in {"top", "rel"} THEN load_object_metadata(file)
  ELSE IF a \in {"msdyn", "msdyn_rel"} THEN al_load_object_metadata(file)
  ELSE relation_load_object_metadata(file)

\* if args.object / if args.object1 and args.object2
SingleMode(a, ar) ==
  IF PairScript(a) THEN ar.object1 # <<>> /\ ar.object2 # <<>> ELSE ar.object1 # <<>>

\* for i, obj1 in enumerate(objects): for j, obj2 in enumerate(objects): i < j
RECURSIVE PairsOf(_, _, _)
PairsOf(objects, i, j) ==
  IF i > Len(objects) THEN <<>>
  ELSE IF j > Len(objects) THEN PairsOf(objects, i + 1, i + 2)
  ELSE << <<objects[i], objects[j]>> >> \o PairsOf(objects, i, j + 1)

\* tuple(sorted([obj1, obj2]))
SortedPair(p) == IF LexLess(p[2], p[1]) THEN <<p[2], p[1]>> ELSE p

\* ObjectRelationAnalyzer.get_objects_from_solr, inside try/except
get_objects_from_solr(resp) == IF resp.status = "ok" THEN IndexedObjects ELSE {}

\* the work lists a bulk mode may go through: the keys of the metadata in
\* file order; ObjectRelationAnalyzer: list(objects_in_solr & set(keys))
WorkLists(a, oc, resp) ==
  IF a \in {"top", "msdyn"} THEN {Keys(oc)}
  ELSE IF a \in {"rel", "msdyn_rel"} THEN {PairsOf(Keys(oc), 1, 2)}
  ELSE {PairsOf(objects, 1, 2) : objects \in Orders(Range(Keys(oc)) \cap get_objects_from_solr(resp))}

WithCount(r, n) ==
  [error |-> r.error, columns_with_mentions |-> r.columns_with_mentions,
   top_columns |-> r.top_columns, cooccurrence_count |-> n]

Printed(r) == IF r.error # "" THEN "error" ELSE "ranking"

scoreIdle == <<column_scores, weighted_scores, mention_details, doc, docs_seen, call>>

InitRun ==
  /\ analyzer \in Scripts
  /\ metadata_file \in Files
  /\ args \in [object1 : Names \cup {<<>>}, object2 : Names \cup {<<>>}, top_n : {1, MaxTopN},
               min_cooccurrence : {0, MinCooccurrence}]
  /\ ~PairScript(analyzer) => args.object2 = <<>>
  /\ args.min_cooccurrence # MinCooccurrence
       => analyzer \in {"rel", "msdyn_rel"} /\ ~SingleMode(analyzer, args)
  /\ object_columns = <<>>
  /\ pending = <<>>
  /\ relationships = <<>>
  /\ queries = <<>>
  /\ results = <<>>
  /\ output = <<>>
  /\ exit_status = "running"
  /\ response = NoResponse
  /\ call = NoCall
  /\ column_scores = <<>>
  /\ weighted_scores = <<>>
  /\ mention_details = <<>>
  /\ doc = NoDoc
  /\ docs_seen = 0
  /\ top_n = 0
  /\ result = NoResult
  /\ pc = "start"

\* variant: main goes on after a failed load
LoadMetadata_ignoring_failure(resp) ==
  /\ pc = "start"
  /\ LET loaded == LoadOf(analyzer, metadata_file)
     IN  /\ object_columns' = loaded.object_columns
         /\ queries' = IF analyzer = "relation" THEN <<Query("facet", <<>>, <<>>)>> ELSE <<>>
         /\ exit_status' = exit_status
         /\ pc' = IF SingleMode(analyzer, args) THEN "single"
                  ELSE IF analyzer \in {"top", "msdyn"} THEN "objects"
                  ELSE IF analyzer = "relation" THEN "pairs" ELSE "finding"
         /\ pending' \in IF SingleMode(analyzer, args) THEN {<<>>}
                         ELSE WorkLists(analyzer, loaded.object_columns, resp)
  /\ top_n' = IF analyzer = "top" THEN TopColumns ELSE args.top_n
  /\ response' = IF analyzer = "relation" THEN resp ELSE response
  /\ UNCHANGED <<analyzer, metadata_file, args, relationships, results, output, result, scoreIdle>>

\* main: load the metadata, leave with exit code 1 when that fails; then
\* the branch on the arguments (ObjectRelationAnalyzer asks the index for
\* its object names first)
LoadMetadata(resp) ==
  /\ pc = "start"
  /\ LET loaded == LoadOf(analyzer, metadata_file)
     IN  IF ~loaded.ok
           THEN /\ exit_status' = "exit1"
                /\ pc' = "done"
                /\ UNCHANGED <<object_columns, queries, pending>>
           ELSE /\ object_columns' = loaded.object_columns
                /\ queries' = IF analyzer = "relation" THEN <<Query("facet", <<>>, <<>>)>> ELSE <<>>
                /\ exit_status' = exit_status
                /\ pc' = IF SingleMode(analyzer, args) THEN "single"
                         ELSE IF analyzer \in {"top", "msdyn"} THEN "objects"
                         ELSE IF analyzer = "relation" THEN "pairs" ELSE "finding"
                /\ pending' \in IF SingleMode(analyzer, args) THEN {<<>>}
                                ELSE WorkLists(analyzer, loaded.object_columns, resp)
  /\ top_n' = IF analyzer = "top" THEN TopColumns ELSE args.top_n
  /\ response' = IF analyzer = "relation" /\ LoadOf(analyzer, metadata_file).ok THEN resp ELSE response
  /\ UNCHANGED <<analyzer, metadata_file, args, relationships, results, output, result, scoreIdle>>

\* the analysis of --object, and what main prints of it
ObjectOutcome(a, oc, name, n, resp) ==
  IF a = "top" THEN analyze_object_columns(oc, name, resp)
  ELSE analyze_object_relational_columns(oc, name, n, resp)

\* the name main hands to the analysis
Requested(a, name) == IF a \in {"top", "rel"} THEN upper(name) ELSE name

AnalyzeObject(resp) ==
  /\ pc = "single" /\ analyzer \in {"top", "msdyn"}
  /\ LET out == ObjectOutcome(analyzer, object_columns, Requested(analyzer, args.object1), top_n, resp)
     IN  /\ result' = out.result
         /\ response' = IF out.queries = <<>> THEN response ELSE resp
         /\ queries' = queries \o out.queries
         /\ output' = Append(output, Printed(out.result))
  /\ exit_status' = "exit0"
  /\ pc' = "done"
  /\ UNCHANGED <<analyzer, metadata_file, args, object_columns, pending, relationships, results,
                 top_n, scoreIdle>>

\* the analysis of --object1 --object2
PairOutcome(a, oc, o1, o2, n, resp) ==
  IF a = "rel" THEN analyze_relationship(oc, o1, o2, n, resp)
  ELSE IF a = "msdyn_rel" THEN al_analyze_relationship(oc, o1, o2, n, resp)
  ELSE relation_analyze_relationship_alike(oc, o1, o2, resp)

AnalyzePair(resp) ==
  /\ pc = "single" /\ PairScript(analyzer)
  /\ LET out == PairOutcome(analyzer, object_columns, Requested(analyzer, args.object1),
                            Requested(analyzer, args.object2), top_n, resp)
     IN  /\ result' = out.result
         /\ response' = IF out.queries = <<>> THEN response ELSE resp
         /\ queries' = queries \o out.queries
         /\ output' = IF out.raised THEN output ELSE Append(output, Printed(out.result))
         /\ exit_status' = IF out.raised THEN "traceback" ELSE "exit0"
  /\ pc' = "done"
  /\ UNCHANGED <<analyzer, metadata_file, args, object_columns, pending, relationships, results,
                 top_n, scoreIdle>>

\* analyze_all_objects: one iteration of the loop over the objects
AnalyzeAllObjectsStep(resp) ==
  /\ pc = "objects" /\ pending # <<>>
  /\ LET out == ObjectOutcome(analyzer, object_columns, Head(pending), top_n, resp)
     IN  /\ results' = Put(results, Head(pending), out.result)
         /\ response' = IF out.queries = <<>> THEN response ELSE resp
         /\ queries' = queries \o out.queries
  /\ pending' = Tail(pending)
  /\ UNCHANGED <<analyzer, metadata_file, args, object_columns, relationships, output, exit_status,
                 top_n, result, pc, scoreIdle>>

\* find_object_relationships: one iteration of the loops over the pairs.
\* The Oracle script sends the request outside any try; the AL script
\* catches the exception and goes on.
FindRelationshipsStep(resp) ==
  /\ pc = "finding" /\ pending # <<>>
  /\ queries' = Append(queries, Query("pair_count", Head(pending)[1], Head(pending)[2]))
  /\ IF analyzer = "rel" /\ resp.status = "connection_error"
       THEN /\ exit_status' = "traceback"
            /\ pc' = "done"
            /\ UNCHANGED <<pending, relationships>>
       ELSE /\ relationships' =
                 IF resp.status = "ok" /\ numFound(resp) > 0
                   THEN Put(relationships, SortedPair(Head(pending)), numFound(resp))
                   ELSE relationships
            /\ pending' = Tail(pending)
            /\ UNCHANGED <<exit_status, pc>>
  /\ response' = resp
  /\ UNCHANGED <<analyzer, metadata_file, args, object_columns, results, output, top_n, result,
                 scoreIdle>>

\* find_object_relationships without the filter on min_cooccurrence
FilterRelationships_unfiltered ==
  /\ pc = "finding" /\ pending = <<>>
  /\ LET filtered == relationships
     IN  /\ relationships' = filtered
         /\ pending' = Keys(filtered)
         /\ pc' = IF filtered = <<>> THEN "done" ELSE "analyzing"
         /\ exit_status' = IF filtered = <<>> THEN "exit0" ELSE exit_status
         /\ output' = IF filtered = <<>> THEN Append(output, "printed_results") ELSE output
  /\ UNCHANGED response
  /\ UNCHANGED <<analyzer, metadata_file, args, object_columns, queries, results, top_n, result,
                 scoreIdle>>

\* the end of find_object_relationships: the filter on min_cooccurrence;
\* analyze_all_relationships returns at once when nothing is left
FilterRelationships ==
  /\ pc = "finding" /\ pending = <<>>
  /\ LET filtered == SelectSeq(relationships, LAMBDA e : e.val >= args.min_cooccurrence)
     IN  /\ relationships' = filtered
         /\ pending' = Keys(filtered)
         /\ pc' = IF filtered = <<>> THEN "done" ELSE "analyzing"
         /\ exit_status' = IF filtered = <<>> THEN "exit0" ELSE exit_status
         /\ output' = IF filtered = <<>> THEN Append(output, "printed_results") ELSE output
  /\ UNCHANGED response
  /\ UNCHANGED <<analyzer, metadata_file, args, object_columns, queries, results, top_n, result,
                 scoreIdle>>

\* analyze_all_relationships: one iteration of the loop over the relationships
AnalyzeAllRelationshipsStep(resp) ==
  /\ pc = "analyzing" /\ pending # <<>>
  /\ LET pair == Head(pending)
         out == PairOutcome(analyzer, object_columns, pair[1], pair[2], top_n, resp)
     IN  /\ response' = IF out.queries = <<>> THEN response ELSE resp
         /\ queries' = queries \o out.queries
         /\ IF out.raised
              THEN /\ exit_status' = "traceback"
                   /\ pc' = "done"
                   /\ UNCHANGED <<pending, results>>
              ELSE /\ results' = Put(results, pair, WithCount(out.result, Get(relationships, pair)))
                   /\ pending' = Tail(pending)
                   /\ UNCHANGED <<exit_status, pc>>
  /\ UNCHANGED <<analyzer, metadata_file, args, object_columns, relationships, output, top_n,
                 result, scoreIdle>>

\* find_all_relationships: one iteration of the loops over the pairs
FindAllRelationshipsStep(resp) ==
  /\ pc = "pairs" /\ pending # <<>>
  /\ LET pair == Head(pending)
         out == relation_analyze_relationship_alike(object_columns, pair[1], pair[2], resp)
     IN  /\ response' = IF out.queries = <<>> THEN response ELSE resp
         /\ queries' = queries \o out.queries
         /\ results' = IF out.result.success /\ out.result.overall_score >= MinScore
                         THEN Append(results, [key |-> pair, val |-> out.result])
                         ELSE results
  /\ pending' = Tail(pending)
  /\ UNCHANGED <<analyzer, metadata_file, args, object_columns, relationships, output, exit_status,
                 top_n, result, pc, scoreIdle>>

by_overall_score(rs) ==
  [i \in 1..Len(rs) |-> [sortkey |-> rs[i].val.overall_score, item |-> rs[i]]]

\* after the loop: the summary (which divides by the number of results), the
\* results file and the printed results; ObjectRelationAnalyzer sorts the
\* relationships and writes the report
Finish ==
  /\ pc \in {"objects", "analyzing", "pairs"} /\ pending = <<>>
  /\ IF analyzer # "relation" /\ results = <<>>
       THEN /\ exit_status' = "traceback"
            /\ UNCHANGED <<results, output>>
       ELSE /\ exit_status' = "exit0"
            /\ results' = IF analyzer = "relation" THEN sorted_reverse(by_overall_score(results))
                          ELSE results
            /\ output' = output \o (IF analyzer = "relation" THEN <<"report">>
                                    ELSE <<"results_file", "printed_results">>)
  /\ pc' = "done"
  /\ UNCHANGED response
  /\ UNCHANGED <<analyzer, metadata_file, args, object_columns, pending, relationships, queries,
                 top_n, result, scoreIdle>>

NextRun ==
  \/ \E resp \in Responses : LoadMetadata(resp)
  \/ \E resp \in Responses : AnalyzeObject(resp)
  \/ \E resp \in Responses : AnalyzePair(resp)
  \/ \E resp \in Responses : AnalyzeAllObjectsStep(resp)
  \/ \E resp \in Responses : FindRelationshipsStep(resp)
  \/ FilterRelationships
  \/ \E resp \in Responses : AnalyzeAllRelationshipsStep(resp)
  \/ \E resp \in Responses : FindAllRelationshipsStep(resp)
  \/ Finish

SpecRun == InitRun /\ [][NextRun]_vars

----------------------------------------------------------------------------
(* ObjectRelationAnalyzer: its functions called on their own, on metadata
   as load_object_metadata leaves it (no object without columns) *)

MaxCount == 11        \* largest numFound of the co-occurrence request
MaxExact == 6         \* largest number of exact matches passed to the strength
MaxCrossFound == 3    \* largest number of cross-column pairs passed to the strength

ColumnLists ==
  { << <<"C">> >>,
    << <<"c">> >>,
    << <<"C">>, <<"D">> >>,
    << <<"C">>, <<"C">> >>,
    << <<"D">>, <<"C">>, <<"E">> >>,
    << <<"C">>, <<"D">>, <<"E">>, <<"I">>, <<"J">> >>,
    << <<"C">>, <<"D">>, <<"E">>, <<"F">>, <<"G">>, <<"H">> >>,
    << <<"I">>, <<"J">>, <<"K">>, <<"L">>, <<"M">>, <<"C">> >> }

\* column_score arguments, in thousandths
ColumnScores == {0, 100, 200, 333, 400, 500, 545, 667, 1000}

PairMetadata ==
  { << [key |-> <<"T">>, val |-> cols1], [key |-> <<"u">>, val |-> cols2] >> :
      cols1 \in ColumnLists, cols2 \in ColumnLists }

StrengthCalls ==
  [fn : {"calculate_relationship_strength"}, cooccurrence : 0..MaxCount,
   column_score : ColumnScores, exact_matches : 0..MaxExact, cross : 0..MaxCrossFound]

MatchCalls ==
  [fn : {"find_column_matches"}, object1 : {<<"T">>, <<"u">>, <<"X">>},
   object2 : {<<"T">>, <<"u">>, <<"X">>}]

AnalysisCalls ==
  [fn : {"analyze_relationship"}, object1 : {<<"T">>, <<"X">>}, object2 : {<<"T">>, <<"u">>, <<"X">>}]

\* what the index answers to the co-occurrence request of the objects
PairResponses ==
  {ConnectionError, HttpError}
    \cup {Found([i \in 1..n |-> PlainDoc]) : n \in {0, 1, 6, 7, MaxCount}}

\* list(set): the orders of the common columns the model goes through, all
\* of them for up to three columns, else that of cols and its reverse
ListOrders(S, cols) ==
  LET inorder == SelectSeq(Distinct(cols), LAMBDA c : c \in S)
  IN  IF Cardinality(S) <= 3 THEN Orders(S)
      ELSE {inorder, [i \in 1..Len(inorder) |-> inorder[Len(inorder) + 1 - i]]}

\* the pairs of column names the index may have documents of: none, all,
\* only the first or all but the first of those the objects can form
LinkedSets(cols1, cols2) ==
  LET all == Range(cols1) \X Range(cols2)
      cross == CrossPairs(cols1, cols2, 1, 1)
      first == IF cross = <<>> THEN {} ELSE {cross[1]}
  IN  { {}, all, first, all \ first }

InitPair ==
  /\ analyzer = "relation"
  /\ \/ call \in StrengthCalls /\ object_columns = <<>>
     \/ call \in MatchCalls \cup AnalysisCalls /\ object_columns \in PairMetadata
  /\ pc = "call"
  /\ metadata_file = [t |-> "null"]
  /\ args = [object1 |-> <<>>, object2 |-> <<>>, top_n |-> 0]
  /\ pending = <<>>
  /\ relationships = <<>>
  /\ queries = <<>>
  /\ results = <<>>
  /\ output = <<>>
  /\ exit_status = "running"
  /\ response = NoResponse
  /\ column_scores = <<>>
  /\ weighted_scores = <<>>
  /\ mention_details = <<>>
  /\ doc = NoDoc
  /\ docs_seen = 0
  /\ top_n = 0
  /\ result = <<>>

pairIdle == <<analyzer, metadata_file, args, object_columns, pending, relationships, results,
              output, exit_status, column_scores, weighted_scores, mention_details, doc,
              docs_seen, top_n>>

CalculateRelationshipStrength(up) ==
  /\ pc = "call" /\ call.fn = "calculate_relationship_strength"
  /\ result' = calculate_relationship_strength(call.cooccurrence, call.column_score,
                                               call.exact_matches, call.cross, up)
  /\ pc' = "done"
  /\ UNCHANGED <<call, queries, response, pairIdle>>

ColumnsOf(object) == GetOr(object_columns, object, <<>>)

FindColumnMatches(up) ==
  /\ pc = "call" /\ call.fn = "find_column_matches"
  /\ \E exact \in ListOrders(exact_matches(ColumnsOf(call.object1), ColumnsOf(call.object2)),
                              ColumnsOf(call.object1)) :
       result' = find_column_matches(object_columns, call.object1, call.object2, exact, up)
  /\ pc' = "done"
  /\ UNCHANGED <<call, queries, response, pairIdle>>

\* the same function called again with the two objects exchanged
FindColumnMatchesExchanged(up) ==
  /\ pc = "done" /\ call.fn = "find_column_matches"
  /\ call' = [call EXCEPT !.object1 = call.object2, !.object2 = call.object1]
  /\ \E exact \in ListOrders(exact_matches(ColumnsOf(call.object2), ColumnsOf(call.object1)),
                              ColumnsOf(call.object2)) :
       result' = find_column_matches(object_columns, call.object2, call.object1, exact, up)
  /\ pc' = "exchanged"
  /\ UNCHANGED <<queries, response, pairIdle>>

AnalyzeRelationship(resp, up) ==
  /\ pc = "call" /\ call.fn = "analyze_relationship"
  /\ \E linked \in LinkedSets(ColumnsOf(call.object1), ColumnsOf(call.object2)),
        exact \in ListOrders(exact_matches(ColumnsOf(call.object1), ColumnsOf(call.object2)),
                            ColumnsOf(call.object1)) :
       LET out == relation_analyze_relationship(object_columns, call.object1, call.object2,
                                                resp, linked, exact, up)
       IN  /\ result' = out.result
           /\ queries' = out.queries
           /\ response' = IF out.queries = <<>> THEN response
                          ELSE [status |-> resp.status, docs |-> resp.docs, linked |-> linked]
  /\ pc' = "done"
  /\ UNCHANGED <<call, pairIdle>>

NextPair ==
  \/ \E up \in BOOLEAN : CalculateRelationshipStrength(up)
  \/ \E up \in BOOLEAN : FindColumnMatches(up)
  \/ \E up \in BOOLEAN : FindColumnMatchesExchanged(up)
  \/ \E resp \in PairResponses, up \in BOOLEAN : AnalyzeRelationship(resp, up)

SpecPair == InitPair /\ [][NextPair]_vars

-----------------------------------------------------------------------------
(* math.exp(-min_distance / 100.0) in double precision: the proximity of one
   window, computed for two distances *)

\* a non-negative double: (hi * 2^27 + lo) * 2^exp, with exp >= -1074 and the
\* 53 bits of the significand in hi and lo; 0.0 has hi = lo = 0
Double(exp, hi, lo) == [exp |-> exp, hi |-> hi, lo |-> lo]

DoubleZero == Double(0 - 1074, 0, 0)
DoubleOne == Double(0 - 52, 33554432, 0)

\* a < b for two non-negative doubles
DoubleLess(a, b) ==
  \/ a.exp < b.exp
  \/ a.exp = b.exp /\ a.hi < b.hi
  \/ a.exp = b.exp /\ a.hi = b.hi /\ a.lo < b.lo

\* the values math.exp returns for -min_distance / 100.0
ExpDoubles ==
<<
  [min_distance |-> 0, value |-> Double(0 - 52, 33554432, 0)],
  [min_distance |-> 1, value |-> Double(0 - 53, 66441119, 86744318)],
  [min_distance |-> 2, value |-> Double(0 - 53, 65780019, 61729883)],
  [min_distance |-> 16, value |-> Double(0 - 53, 57186401, 86191696)],
  [min_distance |-> 69, value |-> Double(0 - 53, 33660200, 27462092)],
  [min_distance |-> 70, value |-> Double(0 - 54, 66650551, 31282498)],
  [min_distance |-> 100, value |-> Double(0 - 54, 49375942, 103608120)],
  [min_distance |-> 1000, value |-> Double(0 - 67, 49917750, 90471579)],
  [min_distance |-> 10000, value |-> Double(0 - 197, 55673826, 81964893)],
  [min_distance |-> 70000, value |-> Double(0 - 1062, 36300129, 129577087)],
  [min_distance |-> 73984, value |-> Double(0 - 1074, 0, 99)],
  [min_distance |-> 73985, value |-> Double(0 - 1074, 0, 99)],
  [min_distance |-> 73986, value |-> Double(0 - 1074, 0, 98)],
  [min_distance |-> 74000, value |-> Double(0 - 1074, 0, 85)],
  [min_distance |-> 74500, value |-> Double(0 - 1074, 0, 1)],
  [min_distance |-> 74513, value |-> Double(0 - 1074, 0, 1)],
  [min_distance |-> 74514, value |-> Double(0 - 1074, 0, 0)],
  [min_distance |-> 74515, value |-> Double(0 - 1074, 0, 0)],
  [min_distance |-> 75000, value |-> Double(0 - 1074, 0, 0)],
  [min_distance |-> 100000, value |-> Double(0 - 1074, 0, 0)]
>>

Distances == {ExpDoubles[i].min_distance : i \in DOMAIN ExpDoubles}

math_exp_neg(min_distance) ==
  ExpDoubles[CHOOSE i \in DOMAIN ExpDoubles : ExpDoubles[i].min_distance = min_distance].value

\* the end of calculate_proximity_score: score and min_distance of one window
calculate_proximity_score(min_distance) ==
  [score |-> IF min_distance = INF THEN DoubleZero ELSE math_exp_neg(min_distance),
   min_distance |-> IF min_distance # INF THEN min_distance ELSE None]

\* two windows, the object and the column min_distance and farther characters apart
ProximityCalls ==
  [fn : {"calculate_proximity_score"}, min_distance : Distances \cup {INF},
   farther : Distances \cup {INF}]

InitProximity ==
  /\ analyzer = "msdyn"
  /\ call \in ProximityCalls
  /\ object_columns = <<>>
  /\ pc = "call"
  /\ metadata_file = [t |-> "null"]
  /\ args = [object1 |-> <<>>, object2 |-> <<>>, top_n |-> 0]
  /\ pending = <<>>
  /\ relationships = <<>>
  /\ queries = <<>>
  /\ results = <<>>
  /\ output = <<>>
  /\ exit_status = "running"
  /\ response = NoResponse
  /\ column_scores = <<>>
  /\ weighted_scores = <<>>
  /\ mention_details = <<>>
  /\ doc = NoDoc
  /\ docs_seen = 0
  /\ top_n = 0
  /\ result = <<>>

CalculateProximityScore ==
  /\ pc = "call" /\ call.fn = "calculate_proximity_score"
  /\ result' = [window |-> calculate_proximity_score(call.min_distance),
                farther_window |-> calculate_proximity_score(call.farther)]
  /\ pc' = "done"
  /\ UNCHANGED <<call, queries, response, object_columns, pairIdle>>

NextProximity == CalculateProximityScore

SpecProximity == InitProximity /\ [][NextProximity]_vars

----------------------------------------------------------------------------
(* Vocabulary of the properties, stated on the text of a document and
   independent of the loops above *)

\* offsets at which name stands in text as a whole word, letter case ignored
Occurrences(name, text) ==
  { i \in 0..(Len(text) - Len(name)) :
      /\ \A k \in 1..Len(name) : UpperChar(text[i + k]) = UpperChar(name[k])
      /\ (i = 0 \/ ~IsWordChar(text[i]))
      /\ (i + Len(name) = Len(text) \/ ~IsWordChar(text[i + Len(name) + 1])) }

ZoneBefore(d) == join(SP, d.context_before)
ZoneLine(d) == d.line_text
ZoneAfter(d) == join(SP, d.context_after)

\* the zones in document order, the empty ones left out, one space between them
Buffer(d) == join(SP, SelectSeq(<<ZoneBefore(d), ZoneLine(d), ZoneAfter(d)>>, LAMBDA z : z # <<>>))

InBuffer(name, d) == Occurrences(name, Buffer(d)) # {}

SetMin(S) == CHOOSE x \in S : \A y \in S : x <= y

MinDist(a, c, d) ==
  SetMin({Abs(x - y) : <<x, y>> \in Occurrences(a, Buffer(d)) \X Occurrences(c, Buffer(d))})

Proximity(a, c, d) == exp_neg(MinDist(a, c, d))

ZeroScore ==
  [total_weighted_score |-> 0, total_mentions |-> 0, context_before_score |-> 0,
   line_text_score |-> 0, context_after_score |-> 0, best_proximity |-> 0,
   min_distance |-> INF, documents_found_in |-> 0]

\* the accumulated ColumnScore of column c; zero while there is no entry
ScoreRec(scores, c) == IF Has(scores, c) THEN Get(scores, c) ELSE ZeroScore

Columns == Range(TargetColumns)
Anchor == ObjectOf(analyzer)
Proximal == analyzer \in {"rel", "msdyn"}
WindowHandled == docs_seen' = docs_seen + 1

ColC == <<"C">>
ColD == <<"D">>

----------------------------------------------------------------------------
(* C1: in a window where the anchor and the column both occur in the combined
   buffer, a column occurring k times in a zone adds proximity * k * weight to
   that zone's sub-score and to total_weighted_score and k to total_mentions,
   with weights before = 1, line = 3, after = 3. *)

C1_Step ==
  (WindowHandled /\ Proximal) =>
    \A c \in Columns :
      (InBuffer(Anchor, doc') /\ InBuffer(c, doc')) =>
        LET p == Proximity(Anchor, c, doc')
            kb == Cardinality(Occurrences(c, ZoneBefore(doc')))
            kl == Cardinality(Occurrences(c, ZoneLine(doc')))
            ka == Cardinality(Occurrences(c, ZoneAfter(doc')))
            old == ScoreRec(column_scores, c)
            new == ScoreRec(column_scores', c)
        IN  /\ new.context_before_score = old.context_before_score + p * kb * 1
            /\ new.line_text_score = old.line_text_score + p * kl * 3
            /\ new.context_after_score = old.context_after_score + p * ka * 3
            /\ new.total_weighted_score =
                 old.total_weighted_score + p * kb * 1 + p * kl * 3 + p * ka * 3
            /\ new.total_mentions = old.total_mentions + kb + kl + ka

C1_ZoneContribution == [][C1_Step]_vars

\* a window with the anchor and with column C once in each zone has been scored
\* on top of an earlier score of C
C1_Witness ==
  /\ Proximal /\ docs_seen = 2
  /\ InBuffer(Anchor, doc)
  /\ Cardinality(Occurrences(ColC, ZoneBefore(doc))) = 1
  /\ Cardinality(Occurrences(ColC, ZoneLine(doc))) = 1
  /\ Cardinality(Occurrences(ColC, ZoneAfter(doc))) = 1
  /\ Has(column_scores, ColC)
  /\ Get(column_scores, ColC).documents_found_in = 2
  /\ Get(column_scores, ColC).total_weighted_score > 7 * Proximity(Anchor, ColC, doc)

----------------------------------------------------------------------------
(* C2: a window in which the anchor or the column has no whole-word
   occurrence in the combined buffer leaves the ColumnScore of that column
   unchanged, and creates no entry for it. *)

C2_Step ==
  (WindowHandled /\ Proximal) =>
    \A c \in Columns :
      (~InBuffer(Anchor, doc') \/ ~InBuffer(c, doc')) =>
        /\ Has(column_scores', c) <=> Has(column_scores, c)
        /\ Has(column_scores, c) => Get(column_scores', c) = Get(column_scores, c)

C2_NoContribution == [][C2_Step]_vars

\* a window that names column C but not the anchor has been handled, and the
\* score C had before is still there
C2_Witness ==
  /\ Proximal /\ docs_seen = 2
  /\ ~InBuffer(Anchor, doc)
  /\ InBuffer(ColC, doc)
  /\ Has(column_scores, ColC)
  /\ Get(column_scores, ColC).documents_found_in = 1
  /\ ~Has(column_scores, <<"C", " ", "D">>)

----------------------------------------------------------------------------
(* Vocabulary of the ranking properties *)

Ranked == pc = "done" /\ result.error = ""

\* the accumulators the ranking was built from
Scored == IF analyzer = "top" THEN weighted_scores ELSE column_scores
ScoreIn(c) == IF analyzer = "top" THEN Get(weighted_scores, c)
              ELSE Get(column_scores, c).total_weighted_score
FirstScored(c) == CHOOSE i \in 1..Len(Scored) : Scored[i].key = c

RankName(i) == result.top_columns[i].column_name
RankMentions(i) == IF analyzer = "top" THEN result.top_columns[i].total_raw_mentions
                   ELSE result.top_columns[i].total_mentions
RankPos == 1..Len(result.top_columns)

----------------------------------------------------------------------------
(* C3: the ranking lists the columns in descending total_weighted_score.
   As claimed: ties are ordered by total_mentions descending, then by column
   name ascending (C3_Original).  As the code does it: ties keep the order
   in which the columns first received a score (C3_StableOrder). *)

C3_Original ==
  Ranked =>
    \A i, j \in RankPos :
      i < j =>
        \/ ScoreIn(RankName(i)) > ScoreIn(RankName(j))
        \/ /\ ScoreIn(RankName(i)) = ScoreIn(RankName(j))
           /\ \/ RankMentions(i) > RankMentions(j)
              \/ /\ RankMentions(i) = RankMentions(j)
                 /\ LexLess(RankName(i), RankName(j))

C3_StableOrder ==
  Ranked =>
    \A i, j \in RankPos :
      i < j =>
        \/ ScoreIn(RankName(i)) > ScoreIn(RankName(j))
        \/ /\ ScoreIn(RankName(i)) = ScoreIn(RankName(j))
           /\ FirstScored(RankName(i)) < FirstScored(RankName(j))

\* a ranking that lists two tied columns, equal in mentions, against name
\* order, and a column with a higher score in front of them
C3_Witness ==
  /\ Ranked
  /\ \E i, j \in RankPos :
       /\ i < j
       /\ ScoreIn(RankName(i)) = ScoreIn(RankName(j))
       /\ RankMentions(i) = RankMentions(j)
       /\ LexLess(RankName(j), RankName(i))
       /\ FirstScored(RankName(i)) < FirstScored(RankName(j))
  /\ \E i, j \in RankPos : i < j /\ ScoreIn(RankName(i)) > ScoreIn(RankName(j))

----------------------------------------------------------------------------
(* C4: the ranking has min(top_k, number of scored columns) entries, ranked
   1..n in list order, without a repeated column, and no column left out has
   a strictly higher total_weighted_score than a column in the list. *)

C4_TopK ==
  Ranked =>
    /\ Len(result.top_columns) = Min(top_n, Len(Scored))
    /\ \A i \in RankPos : result.top_columns[i].rank = i
    /\ \A i, j \in RankPos : i # j => RankName(i) # RankName(j)
    /\ \A i \in RankPos : Has(Scored, RankName(i))
    /\ \A k \in 1..Len(Scored) :
         (\A i \in RankPos : RankName(i) # Scored[k].key) =>
           \A i \in RankPos : ScoreIn(Scored[k].key) <= ScoreIn(RankName(i))

\* a ranking that was cut: more columns were scored than top_n asks for
C4_Witness ==
  /\ Ranked
  /\ top_n >= 1
  /\ Len(Scored) > top_n
  /\ Len(result.top_columns) = top_n
  /\ \E k \in 1..Len(Scored) :
       /\ \A i \in RankPos : RankName(i) # Scored[k].key
       /\ ScoreIn(Scored[k].key) > 0

----------------------------------------------------------------------------
(* Vocabulary of the properties of a run.  A step of an analysis is a step
   from pc = "single" (main analyses the object or pair of the command
   line) or a step of a bulk loop with something pending; the properties
   below speak of the state before (unprimed) and after (primed) it. *)

RankingScript == analyzer \in {"top", "msdyn", "rel", "msdyn_rel"}
BulkLoop == pc \in {"objects", "finding", "analyzing", "pairs"} /\ pending # <<>>

\* the names the analysis of the step is asked for
AskedObject1 ==
  IF pc = "single" THEN Requested(analyzer, args.object1)
  ELSE IF PairScript(analyzer) THEN Head(pending)[1] ELSE Head(pending)
AskedObject2 ==
  IF pc = "single" THEN Requested(analyzer, args.object2) ELSE Head(pending)[2]

\* the name is a key of the metadata / no key equals it, even ignoring case
IsKey(name) == \E i \in 1..Len(object_columns) : object_columns[i].key = name
MatchesNoKey(name) == \A i \in 1..Len(object_columns) : upper(object_columns[i].key) # upper(name)

\* the step sent a request, and how the index answered it
Asked == queries' # queries
NoDocuments == Asked /\ response'.status = "ok" /\ response'.docs = <<>>
SomeDocuments == Asked /\ response'.status = "ok" /\ response'.docs # <<>>
IndexFailed == Asked /\ response'.status \in {"connection_error", "http_error"}

\* a step that analyses one object or pair for a ranking, and its outcome
RankingStep ==
  /\ RankingScript
  /\ pc = "single" \/ (pc \in {"objects", "analyzing"} /\ pending # <<>>)
Returned == IF pc = "single" THEN result' ELSE GetOr(results', Head(pending), NoResult)

(* C5 as stated: when the object (or both objects of the pair) is a key of
   the metadata and the index answers with no documents, the analysis
   returns an empty ranking and no error. *)
C5_Step_Original ==
  (RankingStep /\ IsKey(AskedObject1) /\ (PairScript(analyzer) => IsKey(AskedObject2)) /\ NoDocuments)
    => (Returned.error = "" /\ Returned.top_columns = <<>>)
C5_Original == [][C5_Step_Original]_vars

(* C5 (amended): when the object (or both objects of the pair) is a key of
   the metadata and the index answers with no documents, the analysis
   returns the error result "No documents found" and no ranking; when the
   index answers with documents, it returns a ranking and no error, which
   is empty when no document mentions a column. *)
C5_Step ==
  (RankingStep /\ IsKey(AskedObject1) /\ (PairScript(analyzer) => IsKey(AskedObject2)))
    => /\ NoDocuments => (Returned.error = "No documents found" /\ Returned.top_columns = <<>>)
       /\ SomeDocuments => (/\ Returned.error = ""
                            /\ Returned.columns_with_mentions = 0 => Returned.top_columns = <<>>)
C5_NoDocumentsIsAnError == [][C5_Step]_vars

\* the index had no document of a known object: the run printed the error
C5_Witness ==
  /\ pc = "done" /\ RankingScript /\ SingleMode(analyzer, args)
  /\ IsKey(Requested(analyzer, args.object1))
  /\ response = Found(<<>>)
  /\ result.error = "No documents found"
  /\ output = <<"error">>

(* C6: a pair analysis returns the NotFound error result whenever object1
   or object2 matches no key of the loaded metadata, and then sends no
   request to the index and computes no score. *)
C6_Step ==
  (pc = "single" /\ PairScript(analyzer)
     /\ (MatchesNoKey(AskedObject1) \/ MatchesNoKey(AskedObject2)))
    => (result'.error = "not found in metadata" /\ ~Asked)
C6_NotFoundForEither == [][C6_Step]_vars

(* C7 as stated: ranking the columns of a name that is not a key of the
   metadata returns the NotFound error result, sends no request, and leaves
   the metadata and the results as they were. *)
NotFoundNothingDone ==
  /\ result'.error = "not found in metadata"
  /\ ~Asked
  /\ object_columns' = object_columns
  /\ results' = results
C7_Step_Original ==
  (pc = "single" /\ analyzer \in {"top", "msdyn"} /\ ~IsKey(AskedObject1)) => NotFoundNothingDone
C7_Original == [][C7_Step_Original]_vars

(* C7 (amended): ranking the columns of a name that matches no key of the
   metadata -- a key as written for TopColumnsAnalyzer, a key in any letter
   case for MSDynamicsRelationalColumnsAnalyzer -- returns the NotFound error
   result, sends no request, and leaves the metadata and the results as they
   were. *)
C7_Step ==
  (pc = "single" /\ analyzer \in {"top", "msdyn"}
     /\ (IF analyzer = "msdyn" THEN MatchesNoKey(AskedObject1) ELSE ~IsKey(AskedObject1)))
    => NotFoundNothingDone
C7_NotFoundUnknownObject == [][C7_Step]_vars

\* an unknown object was asked for with metadata loaded: NotFound, no request
C7_Witness ==
  /\ pc = "done" /\ analyzer \in {"top", "msdyn"} /\ SingleMode(analyzer, args)
  /\ object_columns # <<>>
  /\ MatchesNoKey(Requested(analyzer, args.object1))
  /\ result.error = "not found in metadata"
  /\ queries = <<>> /\ results = <<>>

(* C8: in the bulk loops, handling one object or pair never aborts the
   batch: the run goes on with the remaining ones, and an object or pair
   whose analysis failed (nothing asked, or the index failed) has an error
   entry in the results. *)
C8_Step ==
  BulkLoop =>
    /\ exit_status' = "running"
    /\ pending' = Tail(pending)
    /\ (pc \in {"objects", "analyzing"} /\ (~Asked \/ IndexFailed))
         => (Has(results', Head(pending)) /\ Get(results', Head(pending)).error # "")
C8_BatchGoesOn == [][C8_Step]_vars

(* C9: a request to the index that meets a connection error or another
   status than success counts as zero results: no exception leaves the
   call, the run goes on, and no relationship is recorded of it. *)
C9_Step ==
  IndexFailed =>
    /\ exit_status' # "traceback"
    /\ pc = "finding" => relationships' = relationships
    /\ (pc = "single" /\ RankingScript) => result'.top_columns = <<>>
C9_IndexFailureIsZeroResults == [][C9_Step]_vars

\* the shape a metadata file is expected to have: a list of records with
\* the strings object_name and column_name (Oracle scripts), a dict of
\* entries with a list of strings "columns" (AL scripts)
IsRecord(v) ==
  /\ v.t = "dict"
  /\ Has(v.items, OBJECT_NAME) /\ Get(v.items, OBJECT_NAME).t = "str"
  /\ Has(v.items, COLUMN_NAME) /\ Get(v.items, COLUMN_NAME).t = "str"
IsTable(v) ==
  /\ v.t = "dict"
  /\ Has(v.items, COLUMNS) /\ Get(v.items, COLUMNS).t = "list"
  /\ \A j \in 1..Len(Get(v.items, COLUMNS).items) : Get(v.items, COLUMNS).items[j].t = "str"
ALScript == analyzer \in {"msdyn", "msdyn_rel"}
ExpectedShape ==
  IF ALScript
    THEN metadata_file.t = "dict"
           /\ \A i \in 1..Len(metadata_file.items) : IsTable(metadata_file.items[i].val)
    ELSE metadata_file.t = "list"
           /\ \A i \in 1..Len(metadata_file.items) : IsRecord(metadata_file.items[i])

\* the run ends at the load: exit code 1, nothing asked, analysed or written
EndsAtLoad ==
  /\ exit_status' = "exit1" /\ pc' = "done"
  /\ queries' = <<>> /\ results' = <<>> /\ output' = <<>> /\ result' = NoResult

(* C10 as stated: a metadata file that is not of the expected shape makes
   the load fail and the run end at once with a failure exit: no request,
   no analysis, no output. *)
C10_Step_Original == (pc = "start" /\ ~ExpectedShape) => EndsAtLoad
C10_Original == [][C10_Step_Original]_vars

\* what reading the file raises an error on: no JSON; a top level that
\* cannot be traversed (AL: that is no dict); Oracle scripts: an item that
\* is no record, or whose object_name or column_name is there and is no
\* string (ObjectRelationAnalyzer: an item that is no record); AL scripts:
\* "columns" of an entry that cannot be traversed or holds a non-string
NotTraversable(v) == v.t \in {"invalid", "null", "num"}
Entries(v) == {Iter(v)[i] : i \in 1..Len(Iter(v))}
BadField(item, k) == Has(item.items, k) /\ Get(item.items, k).t # "str"
BadColumns(v) ==
  /\ v.t = "dict" /\ Has(v.items, COLUMNS)
  /\ \/ NotTraversable(Get(v.items, COLUMNS))
     \/ \E c \in Entries(Get(v.items, COLUMNS)) : c.t # "str"
Unreadable ==
  IF ALScript
    THEN metadata_file.t # "dict"
           \/ \E i \in 1..Len(metadata_file.items) : BadColumns(metadata_file.items[i].val)
    ELSE NotTraversable(metadata_file)
           \/ \E item \in Entries(metadata_file) :
                \/ item.t # "dict"
                \/ analyzer # "relation" /\ (BadField(item, OBJECT_NAME) \/ BadField(item, COLUMN_NAME))

(* C10 (amended): when reading the metadata file raises an error (no JSON, a
   top level or an entry of a type the loader cannot read), the load fails
   and the run ends at once with exit code 1: no request, no analysis, no
   output.  A file whose entries only lack the expected fields is read
   without error, those entries are passed over, and the run goes on. *)
C10_Step ==
  pc = "start" =>
    /\ Unreadable => EndsAtLoad
    /\ ~Unreadable => (exit_status' = "running" /\ pc' # "done")
C10_FailedLoadEndsRun == [][C10_Step]_vars

\* a file with an item that is no record: the run ended with exit code 1
C10_Witness ==
  /\ pc = "done" /\ exit_status = "exit1"
  /\ metadata_file.t \in {"list", "dict"} /\ metadata_file.items # <<>>
  /\ queries = <<>> /\ output = <<>> /\ results = <<>>

----------------------------------------------------------------------------
(* Vocabulary of the properties of the relationship strength *)

\* _calculate_relationship_strength has returned
StrengthReturned == call.fn = "calculate_relationship_strength" /\ pc = "done"

\* 0.4*min(count/10, 1.0) + 0.3*match_score + 0.2*min(exact/5, 1.0)
\*   + 0.1*min(cross/10, 0.2), in ten-thousandths (PScale is 1.0)
Blend(count, score, exact, cross) ==
  (4 * Min(1000 * count, PScale) + 3 * (10 * score) + 2 * Min(2000 * exact, PScale)
     + Min(1000 * cross, 2000)) \div 10

BlendOfCall == Blend(call.cooccurrence, call.column_score, call.exact_matches, call.cross)

\* cooccurrence_count=10, match_score=0.5, 3 exact matches, no cross-column pairs
ScenarioCall ==
  call = [fn |-> "calculate_relationship_strength", cooccurrence |-> 10, column_score |-> 500,
          exact_matches |-> 3, cross |-> 0]

----------------------------------------------------------------------------
(* C11 *)

\* C11 as stated: for every input the overall score that is returned is the
\* blend 0.4*min(count/10,1) + 0.3*match_score + 0.2*min(exact/5,1) +
\* 0.1*min(cross/10,0.2) itself, and the scenario gives 0.67 and MODERATE.
C11_Original ==
  StrengthReturned =>
    /\ 10 * result.overall_score = BlendOfCall
    /\ ScenarioCall => result.overall_score = 670 /\ result.level = "MODERATE"

\* C11: for every input the overall_score that is returned is the blend
\* 0.4*min(count/10,1) + 0.3*match_score + 0.2*min(exact/5,1) +
\* 0.1*min(cross/10,0.2) rounded to the nearest thousandth (it is at most
\* 0.0005 away from the blend); count 10, match_score 0.5, 3 exact matches
\* and no cross-column pairs give 0.67 and the level MODERATE.
C11_OverallIsRoundedBlend ==
  StrengthReturned =>
    /\ 10 * result.overall_score - BlendOfCall \in (0 - 5)..5
    /\ ScenarioCall => result.overall_score = 670 /\ result.level = "MODERATE"

\* the blend 0.2401 (match_score 0.667, one exact match) is returned as 0.24
C11_Witness ==
  /\ StrengthReturned
  /\ call.cooccurrence = 0 /\ call.column_score = 667 /\ call.exact_matches = 1 /\ call.cross = 0
  /\ result.overall_score = 240

----------------------------------------------------------------------------
(* C12 *)

\* the level the thresholds 0.7, 0.4 and 0.1 give to an overall value
LevelOf(overall) ==
  IF 10 * overall >= 7 * PScale THEN "STRONG"
  ELSE IF 10 * overall >= 4 * PScale THEN "MODERATE"
  ELSE IF 10 * overall >= PScale THEN "WEAK"
  ELSE "MINIMAL"

\* C12: the level is a total function of the overall value with fixed
\* thresholds: overall >= 0.7 gives STRONG, 0.4 <= overall < 0.7 MODERATE,
\* 0.1 <= overall < 0.4 WEAK and overall < 0.1 MINIMAL; exactly one level is
\* assigned (so the level is monotone in overall).
C12_LevelByThresholds ==
  StrengthReturned =>
    /\ result.level \in {"STRONG", "MODERATE", "WEAK", "MINIMAL"}
    /\ result.level = LevelOf(BlendOfCall)

----------------------------------------------------------------------------
(* C13 *)

\* analyze_relationship has returned the analysis of a pair
AnalysisReturned == call.fn = "analyze_relationship" /\ pc = "done" /\ result.success

\* thousandths from 0.0 to 1.0
UnitInterval == 0..(PScale \div 10)

\* C13: in every pair analysis (the co-occurrence count is not negative, the
\* column sets are of any size) 0.0 <= overall_score <= 1.0, and
\* cooccurrence_score, match_score and exact_match_score are in [0, 1] and
\* cross_column_score is in [0, 0.2].
C13_ScoresWithinCaps ==
  AnalysisReturned =>
    /\ result.cooccurrence_count >= 0
    /\ result.overall_score \in UnitInterval
    /\ result.match_score \in UnitInterval
    /\ result.components.cooccurrence_score \in UnitInterval
    /\ result.components.column_score \in UnitInterval
    /\ result.components.exact_match_score \in UnitInterval
    /\ 5 * result.components.cross_column_score \in UnitInterval

\* a pair with more than 10 co-occurrences, more than 5 exact matches and
\* more than 2 cross-column pairs: three components are at their caps
C13_Witness ==
  /\ AnalysisReturned
  /\ result.cooccurrence_count > 10
  /\ Len(result.exact_matches) > 5
  /\ Len(result.cross_column_relationships) > 2
  /\ result.components.cooccurrence_score = 1000
  /\ result.components.exact_match_score = 1000
  /\ result.components.cross_column_score = 200

----------------------------------------------------------------------------
(* Vocabulary of the properties of the column overlap *)

\* find_column_matches has returned
MatchReturned == call.fn = "find_column_matches" /\ pc \in {"done", "exchanged"}

\* the column set of an object of the metadata (empty for an unknown object)
ColumnSet(object) ==
  UNION { Range(object_columns[i].val) : i \in {k \in DOMAIN object_columns : object_columns[k].key = object} }

CommonColumns == ColumnSet(call.object1) \cap ColumnSet(call.object2)

Denominator == Cardinality(ColumnSet(call.object1)) + Cardinality(ColumnSet(call.object2))

\* the result for an object without columns
NoMatches == result.exact_matches = <<>> /\ result.match_score = 0

\* exact_matches lists the common columns, each once
ListsCommonColumns ==
  /\ Range(result.exact_matches) = CommonColumns
  /\ Len(result.exact_matches) = Cardinality(CommonColumns)

----------------------------------------------------------------------------
(* C14 *)

\* C14 as stated: match_score is 2 * |exact_matches| / (|columns(object1)| +
\* |columns(object2)|) itself, exact_matches is the intersection of the column
\* sets, and the result is 0 with an empty list if either object has no columns.
C14_Original ==
  MatchReturned =>
    IF ColumnSet(call.object1) = {} \/ ColumnSet(call.object2) = {} THEN NoMatches
    ELSE /\ ListsCommonColumns
         /\ result.match_score * Denominator = 2 * (PScale \div 10) * Cardinality(CommonColumns)

\* C14: match_score is 2 * |exact_matches| / (|columns(object1)| +
\* |columns(object2)|) rounded to the nearest thousandth, where exact_matches
\* is the intersection of the two column sets (repeated names count once), and
\* the result is 0 with an empty exact_matches list if either object has no
\* columns (which includes a denominator of 0).
C14_MatchScoreIsRoundedRatio ==
  MatchReturned =>
    IF ColumnSet(call.object1) = {} \/ ColumnSet(call.object2) = {} THEN NoMatches
    ELSE /\ ListsCommonColumns
         /\ LET off == result.match_score * Denominator
                         - 2 * (PScale \div 10) * Cardinality(CommonColumns)
            IN  2 * off \in (0 - Denominator)..Denominator

\* one common column of three: 2/3 is returned as 0.667; a repeated name
\* counts once
C14_Witness ==
  /\ MatchReturned
  /\ Denominator = 3 /\ Cardinality(CommonColumns) = 1
  /\ \E i \in DOMAIN object_columns : Len(object_columns[i].val) = 2
                                        /\ Cardinality(Range(object_columns[i].val)) = 1
  /\ result.match_score = 667

----------------------------------------------------------------------------
(* C15 *)

\* the names of a set without regard to letter case
IgnoringCase(names) == {upper(c) : c \in names}

\* C15: column overlap is decided by case-insensitive equality of the column
\* names: two columns whose names differ only in letter case are an exact
\* match, and names that differ in any other way never match.
C15_CaseInsensitiveMatch ==
  MatchReturned =>
    IgnoringCase(Range(result.exact_matches))
      = IgnoringCase(ColumnSet(call.object1)) \cap IgnoringCase(ColumnSet(call.object2))

----------------------------------------------------------------------------
(* C16 *)

\* find_column_matches(B, A) is called after find_column_matches(A, B)
Exchanged ==
  /\ call.fn = "find_column_matches" /\ pc = "done" /\ pc' = "exchanged"
  /\ call'.object1 = call.object2 /\ call'.object2 = call.object1

C16_Step ==
  Exchanged => /\ result'.match_score = result.match_score
               /\ Range(result'.exact_matches) = Range(result.exact_matches)

\* C16: the column-overlap score is symmetric: find_column_matches(A, B) and
\* find_column_matches(B, A) return the same match_score and the same set of
\* exact matches.
C16_Symmetric == [][C16_Step]_vars

\* both orders have been asked for two objects with different column lists
\* that share a column
C16_Witness ==
  /\ call.fn = "find_column_matches" /\ pc = "exchanged"
  /\ call.object1 # call.object2
  /\ Cardinality(ColumnSet(call.object1)) < Cardinality(ColumnSet(call.object2))
  /\ result.match_score > 0

----------------------------------------------------------------------------
(* C17 *)

\* the co-occurrence checks of the cross-column step, in the order sent
CrossChecks == SelectSeq(queries, LAMBDA q : q.kind = "cross_column")

\* the first five columns of an object as the metadata lists them
FirstFive(object) ==
  UNION { {object_columns[i].val[k] : k \in 1..Min(5, Len(object_columns[i].val))} :
            i \in {j \in DOMAIN object_columns : object_columns[j].key = object} }

\* the index has documents of the pair of columns
CountAboveZero(pair) == response.status = "ok" /\ pair \in response.linked

\* C17: one pair analysis issues at most 10 cross-column co-occurrence
\* checks, each for a column among the first 5 of object1 and a column among
\* the first 5 of object2 with different names; a pair is recorded in
\* cross_column_relationships only if it was checked and its count is > 0, so
\* the map has at most 10 entries and no pair of identical names.
C17_CrossColumnChecks ==
  AnalysisReturned =>
    /\ Len(CrossChecks) <= 10
    /\ \A i \in DOMAIN CrossChecks :
         /\ CrossChecks[i].object1 \in FirstFive(call.object1)
         /\ CrossChecks[i].object2 \in FirstFive(call.object2)
         /\ CrossChecks[i].object1 # CrossChecks[i].object2
    /\ \A i \in DOMAIN result.cross_column_relationships :
         LET pair == result.cross_column_relationships[i]
         IN  /\ CountAboveZero(pair)
             /\ \E k \in DOMAIN CrossChecks :
                  CrossChecks[k].object1 = pair[1] /\ CrossChecks[k].object2 = pair[2]
             /\ pair[1] # pair[2]
    /\ Len(result.cross_column_relationships) <= 10

\* ten checks although the objects have more than five columns each and more
\* pairs of different names; a column both objects have is among the first
\* five and the index has documents of it, and one checked pair has none
C17_Witness ==
  /\ AnalysisReturned
  /\ call.object1 # call.object2
  /\ Len(CrossChecks) = 10
  /\ Len(result.cross_column_relationships) = 9
  /\ \E c \in FirstFive(call.object1) \cap FirstFive(call.object2) : CountAboveZero(<<c, c>>)
  /\ Cardinality(ColumnSet(call.object1)) > 5 /\ Cardinality(ColumnSet(call.object2)) > 5

----------------------------------------------------------------------------
(* C18 *)

\* the run of a pair script without --object1 / --object2
BulkPairRun == PairScript(analyzer) /\ ~SingleMode(analyzer, args)

PairLoop == {"finding", "pairs"}

\* the objects the pairs are formed of: the objects of the metadata, for
\* ObjectRelationAnalyzer those of them the index has documents of
ObjectsOfRun ==
  IF analyzer = "relation"
    THEN {o \in Range(Keys(object_columns')) : response'.status = "ok" /\ o \in IndexedObjects}
    ELSE Range(Keys(object_columns'))

\* pairs holds every unordered pair of distinct objects exactly once
EveryPairOnce(pairs, objects) ==
  /\ \A i \in DOMAIN pairs : pairs[i][1] # pairs[i][2] /\ {pairs[i][1], pairs[i][2]} \subseteq objects
  /\ \A a \in objects : \A b \in objects \ {a} :
       Cardinality({i \in DOMAIN pairs : pairs[i] = <<a, b>> \/ pairs[i] = <<b, a>>}) = 1
  /\ 2 * Len(pairs) = Cardinality(objects) * (Cardinality(objects) - 1)

\* the requests for the co-occurrence of a pair of objects
PairRequests(qs) == SelectSeq(qs, LAMBDA q : q.kind \in {"pair_count", "cooccurrence"})

C18_Step ==
  BulkPairRun =>
    /\ pc = "start" /\ pc' \in PairLoop => EveryPairOnce(pending', ObjectsOfRun)
    /\ pc \in PairLoop /\ pending # <<>> =>
         /\ Len(PairRequests(queries')) = Len(PairRequests(queries)) + 1
         /\ LET asked == PairRequests(queries')[Len(PairRequests(queries'))]
            IN  <<asked.object1, asked.object2>> = Head(pending)
    /\ pc \in PairLoop /\ pc' \notin PairLoop => pending = <<>>

\* C18: bulk pair analysis considers every unordered pair of distinct objects
\* exactly once: the loop goes through n*(n-1)/2 pairs for n objects, with no
\* object paired with itself and no pair in both orders, asks the index for
\* each of them, and ends only when all of them have been handled.
C18_EveryPairOnce == [][C18_Step]_vars

-----------------------------------------------------------------------------
(* C19: analyze_all_relationships counts first, then scores the pairs that
   reach the threshold *)

\* a run of analyze_all_relationships (ObjectRelationshipAnalyzer and its AL twin)
CountThenScoreRun == analyzer \in {"rel", "msdyn_rel"} /\ ~SingleMode(analyzer, args)

\* the requests for the documents of a pair: the start of analyze_relationship
DocumentRequests(qs) == SelectSeq(qs, LAMBDA q : q.kind = "pair_documents")

\* the requests of the counting phase
CountRequests(qs) == SelectSeq(qs, LAMBDA q : q.kind = "pair_count")

\* the pair has a recorded count that reaches the threshold and is above 0
ReachesThreshold(counts, pair) ==
  /\ Has(counts, pair)
  /\ Get(counts, pair) >= args.min_cooccurrence
  /\ Get(counts, pair) > 0

\* the counting phase records the count the index gave for the pair, if above 0
CountRecorded ==
  LET pair == SortedPair(Head(pending))
  IN  IF response'.status = "ok" /\ numFound(response') > 0
        THEN Has(relationships', pair) /\ Get(relationships', pair) = numFound(response')
        ELSE ~Has(relationships', pair)

C19_Step ==
  CountThenScoreRun =>
    \* while pairs are counted, no pair is scored
    /\ pc' = "finding" => results' = <<>> /\ DocumentRequests(queries') = <<>>
    /\ pc = "finding" /\ pending # <<>> /\ pc' = "finding" => CountRecorded
    \* scoring begins when every pair has been counted, with the pairs that reach the threshold
    /\ pc = "finding" /\ pc' = "analyzing" =>
         /\ pending = <<>>
         /\ \A pair \in Range(Keys(relationships)) :
              pair \in Range(pending') <=> ReachesThreshold(relationships, pair)
    \* analyze_relationship is invoked for such pairs only
    /\ DocumentRequests(queries') # DocumentRequests(queries) =>
         /\ pc = "analyzing"
         /\ ReachesThreshold(relationships, Head(pending))
         /\ LET asked == DocumentRequests(queries')[Len(DocumentRequests(queries'))]
            IN  <<asked.object1, asked.object2>> = Head(pending)
    \* and only such pairs are in the results
    /\ \A pair \in Range(Keys(results')) : ReachesThreshold(relationships', pair)

\* C19: analyze_all_relationships filters, then scores: the counting phase
\* finishes for all pairs before any pair is scored; the document fetch and
\* the column scoring (analyze_relationship) are invoked only for pairs whose
\* co-occurrence count is >= min_cooccurrence and > 0; a pair below the
\* threshold never appears in the results.
C19_TwoPhase == [][C19_Step]_vars

\* three pairs were counted, one of them reached the default threshold and was scored
C19_Witness ==
  /\ CountThenScoreRun /\ pc = "done" /\ exit_status = "exit0"
  /\ args.min_cooccurrence = MinCooccurrence
  /\ Len(CountRequests(queries)) = 3
  /\ Len(results) = 1 /\ Len(DocumentRequests(queries)) = 1

-----------------------------------------------------------------------------
(* C20: the decay of the proximity with the distance *)

ProximityReturned == call.fn = "calculate_proximity_score" /\ pc = "done"

\* C20: the proximity of a window is exp(-min_distance/100): it is exactly 1.0
\* at distance 0, lies in (0, 1] for every distance, is strictly decreasing in
\* the distance (d1 < d2 implies proximity(d1) > proximity(d2)), and there is
\* no distance at which it becomes 0.
C20_ProximityDecay ==
  ProximityReturned /\ call.min_distance # INF /\ call.farther # INF =>
    /\ call.min_distance = 0 => result.window.score = DoubleOne
    /\ DoubleLess(DoubleZero, result.window.score)
    /\ ~DoubleLess(DoubleOne, result.window.score)
    /\ call.min_distance < call.farther =>
         DoubleLess(result.farther_window.score, result.window.score)

-----------------------------------------------------------------------------
(* C21: the ranking of a repeated analysis *)

SecondCall == call.fn = "analyze_again" /\ call.first # NoResult

NoAccumulators == column_scores = <<>> /\ weighted_scores = <<>> /\ mention_details = <<>>

-----------------------------------------------------------------------------
(* Vocabulary of the properties of the window of EMPLOYEES *)

WindowScored == call.fn = "score_window" /\ pc = "done"

\* the analyzers with the weights before = 3, line = 3, after = 1
SchemeA == analyzer \in {"top", "msdyn_top"}

\* line_text = 'SELECT SALARY FROM EMPLOYEES', no context
ScenarioDoc == Line(<<"S", "E", "L", "E", "C", "T", " ", "S", "A", "L", "A", "R", "Y", " ", "F", "R", "O", "M", " ", "E", "M", "P", "L", "O", "Y", "E", "E", "S">>)

\* offsets at which the characters of literal stand in text, letter case ignored
LiteralAt(literal, text) ==
  { i \in 0..(Len(text) - Len(literal)) :
      \A k \in 1..Len(literal) : UpperChar(text[i + k]) = literal[k] }

\* "NAME" in double quotes, and .NAME with no word character behind it
Quoted(name, text) == LiteralAt(<<"\"">> \o name \o <<"\"">>, text)
Dotted(name, text) ==
  { i \in LiteralAt(<<".">> \o name, text) :
      i + Len(name) + 1 = Len(text) \/ ~IsWordChar(text[i + Len(name) + 2]) }

\* the mentions of a column in the text of a zone, as the analyzer counts them
Mentions(name, text) ==
  Cardinality(Occurrences(name, text))
    + IF analyzer = "msdyn_top"
        THEN Cardinality(Quoted(name, text)) + Cardinality(Dotted(name, text))
        ELSE 0

\* mentions times zone weight, with the weights of scheme A
WeightedMentions(name, d) ==
  3 * Mentions(name, ZoneBefore(d)) + 3 * Mentions(name, ZoneLine(d)) + 1 * Mentions(name, ZoneAfter(d))

ScoreA(name) == IF Has(weighted_scores, name) THEN Get(weighted_scores, name) ELSE 0

-----------------------------------------------------------------------------
(* C22 *)

-----------------------------------------------------------------------------
(* C24 *)

\* the ColumnScore of SALARY after the window
SalaryScore == ScoreRec(column_scores, SALARY)

\* C24 as stated: for a window with line_text 'SELECT SALARY FROM EMPLOYEES'
\* and no context the scorer locates the anchor EMPLOYEES at character offset
\* 23 and the candidate SALARY at offset 7, so min_distance is 16 and the
\* proximity is exp(-0.16).
C24_Original ==
  WindowScored /\ Proximal /\ doc = ScenarioDoc =>
    /\ finditer(EMPLOYEES, upper(all_text(doc))) = <<23>>
    /\ finditer(SALARY, upper(all_text(doc))) = <<7>>
    /\ SalaryScore.min_distance = 16
    /\ SalaryScore.best_proximity = exp_neg(16)

\* C24 (amended): for a window with line_text 'SELECT SALARY FROM EMPLOYEES'
\* and no context the scorer locates the anchor EMPLOYEES at character offset
\* 19 and the candidate SALARY at offset 7, so min_distance is 12 and the
\* proximity is exp(-0.12).
C24_ScenarioDistance ==
  WindowScored /\ Proximal /\ doc = ScenarioDoc =>
    /\ finditer(EMPLOYEES, upper(all_text(doc))) = <<19>>
    /\ finditer(SALARY, upper(all_text(doc))) = <<7>>
    /\ SalaryScore.min_distance = 12
    /\ SalaryScore.best_proximity = exp_neg(12)

\* ObjectRelationshipAnalyzer has scored the window of the scenario
C24_Witness ==
  /\ WindowScored /\ analyzer = "rel" /\ doc = ScenarioDoc
  /\ Has(column_scores, SALARY)
  /\ Get(column_scores, SALARY).documents_found_in = 1
  /\ Get(column_scores, SALARY).line_text_score = 3 * exp_neg(12)

-----------------------------------------------------------------------------
(* C23 *)

\* C23: for a window in which the anchor and the column both have whole-word,
\* case-insensitive occurrences in the combined buffer (before + line + after
\* in document order), min_distance is the minimum of
\* |start(anchor_i) - start(column_j)| over all pairs of occurrences, a
\* non-negative integer; an identifier is never matched inside a longer
\* identifier, so a window without such occurrences gives the column no
\* distance at all.
C23_MinDistance ==
  WindowScored /\ Proximal =>
    \A c \in {ID, SALARY, NAME} :
      IF InBuffer(EMPLOYEES, doc) /\ InBuffer(c, doc)
        THEN /\ Has(column_scores, c)
             /\ Get(column_scores, c).min_distance = MinDist(EMPLOYEES, c, doc)
             /\ Get(column_scores, c).min_distance \in Nat
        ELSE ~Has(column_scores, c)

\* a window with two occurrences of the anchor and two of SALARY, cut into
\* zones, in which the nearest pair is not the first one; and NAME once
C23_Witness ==
  /\ WindowScored /\ Proximal
  /\ Cardinality(Occurrences(EMPLOYEES, Buffer(doc))) = 2
  /\ Cardinality(Occurrences(SALARY, Buffer(doc))) = 2
  /\ doc.context_before # <<>> /\ doc.context_after # <<>>
  /\ Get(column_scores, SALARY).min_distance = 7
  /\ Get(column_scores, NAME).min_distance = 10

-----------------------------------------------------------------------------
(* C25 *)

\* the window that has just been handled contributes to column c
Contributes(c) == InBuffer(Anchor, doc') /\ InBuffer(c, doc')

C25_Step ==
  (WindowHandled /\ Proximal) =>
    \A c \in Columns :
      LET old == ScoreRec(column_scores, c)
          new == ScoreRec(column_scores', c)
      IN  /\ Contributes(c) =>
               /\ new.best_proximity = Max(old.best_proximity, Proximity(Anchor, c, doc'))
               /\ new.min_distance = Min(old.min_distance, MinDist(Anchor, c, doc'))
          /\ ~Contributes(c) =>
               /\ new.best_proximity = old.best_proximity
               /\ new.min_distance = old.min_distance
          /\ new.best_proximity >= old.best_proximity
          /\ new.min_distance <= old.min_distance
          /\ new.total_weighted_score >= old.total_weighted_score
          /\ new.total_mentions >= old.total_mentions
          /\ new.documents_found_in >= old.documents_found_in

\* C25: after any sequence of windows each column's best_proximity is the
\* maximum of the per-window proximities and its min_distance the minimum of
\* the per-window min_distances, taken over exactly the windows that
\* contributed to the column (each window that contributes folds its value
\* in with max / min, any other window leaves both as they are); across the
\* run best_proximity never decreases, min_distance never increases, and
\* total_weighted_score, total_mentions and documents_found_in never decrease.
C25_RunningExtremes == [][C25_Step]_vars

\* column C was scored by two windows and the later one has it farther from
\* the anchor than the earlier one
C25_Witness ==
  /\ Proximal /\ docs_seen >= 2
  /\ InBuffer(Anchor, doc) /\ InBuffer(ColC, doc)
  /\ Has(column_scores, ColC)
  /\ Get(column_scores, ColC).documents_found_in = 2
  /\ Get(column_scores, ColC).min_distance < MinDist(Anchor, ColC, doc)
  /\ Get(column_scores, ColC).best_proximity > Proximity(Anchor, ColC, doc)

-----------------------------------------------------------------------------
(* C26 *)

PermutedCall == call.fn = "analyze_permuted" /\ pc = "done"

\* the accumulated values of every column are those of the first run
SameAccumulation ==
  /\ \A c \in Columns :
       /\ Has(column_scores, c) <=> Has(call.first_scores.column_scores, c)
       /\ ScoreRec(column_scores, c) = ScoreRec(call.first_scores.column_scores, c)
       /\ GetOr(weighted_scores, c, 0) = GetOr(call.first_scores.weighted_scores, c, 0)
       /\ GetOr(mention_details, c, DefaultDetails)
            = GetOr(call.first_scores.mention_details, c, DefaultDetails)

\* the score an entry of a ranking reports
EntryScore(e) == IF analyzer = "top" THEN e.weighted_score ELSE e.total_weighted_score

\* the two rankings report the same scores rank by rank, and a column listed in
\* both is listed with the same values
SameUpToTies(r1, r2) ==
  /\ r1.error = r2.error
  /\ r1.columns_with_mentions = r2.columns_with_mentions
  /\ Len(r1.top_columns) = Len(r2.top_columns)
  /\ \A i \in DOMAIN r1.top_columns : EntryScore(r1.top_columns[i]) = EntryScore(r2.top_columns[i])
  /\ \A i \in DOMAIN r1.top_columns : \A j \in DOMAIN r2.top_columns :
       r1.top_columns[i].column_name = r2.top_columns[j].column_name =>
         [r1.top_columns[i] EXCEPT !.rank = 0] = [r2.top_columns[j] EXCEPT !.rank = 0]

\* C26 as stated: accumulation over windows is commutative: for every
\* permutation of the same windows each column's accumulated
\* total_weighted_score, total_mentions, zone sub-scores, best_proximity,
\* min_distance and documents_found_in are the same, so the arrival order of
\* the windows does not change the result of the analysis.
C26_Original ==
  PermutedCall => SameAccumulation /\ result = call.first

\* C26 (amended): for every permutation of the same windows each column's
\* accumulated values are the same, and the rankings report the same scores
\* rank by rank; the arrival order can change the order of the columns that
\* are tied in total_weighted_score, and which of them the cut to top_n keeps.
C26_SameScoresAnyOrder ==
  PermutedCall => SameAccumulation /\ SameUpToTies(result, call.first)

\* the same two windows in the other order gave the same scores and another
\* ranking
C26_Witness ==
  /\ PermutedCall /\ Proximal
  /\ Len(call.docs) = 2
  /\ SameAccumulation
  /\ Len(column_scores) >= 2
  /\ result # call.first

-----------------------------------------------------------------------------
(* C27 *)

\* C27: a score entry is created only when the column is mentioned in a
\* window: every column of the score map of the proximity analyzers has
\* total_mentions >= 1 and total_weighted_score > 0, also a column name of
\* several words that straddles the boundary between two zones.
C27_EntryOnlyWhenMentioned ==
  Proximal =>
    \A c \in Columns :
      Has(column_scores, c) =>
        /\ ScoreRec(column_scores, c).total_mentions >= 1
        /\ ScoreRec(column_scores, c).total_weighted_score > 0

-----------------------------------------------------------------------------
(* C28 *)

\* C28: after any sequence of windows, for every column of the score map
\* total_weighted_score is the sum of the three zone scores, and
\* documents_found_in is at most the number of windows processed and at most
\* total_mentions whenever total_mentions > 0.
C28_TotalsConsistent ==
  Proximal =>
    \A c \in Columns :
      Has(column_scores, c) =>
        LET rec == ScoreRec(column_scores, c) IN
        /\ rec.total_weighted_score
             = rec.context_before_score + rec.line_text_score + rec.context_after_score
        /\ rec.documents_found_in <= docs_seen
        /\ rec.total_mentions > 0 => rec.documents_found_in <= rec.total_mentions

-----------------------------------------------------------------------------
(* C29 *)

\* the level the thresholds 0.7, 0.4 and 0.1 give to a reported overall_score
\* (thousandths)
LevelOfReported(overall_score) ==
  IF 10 * overall_score >= 7 * PScale THEN "STRONG"
  ELSE IF 10 * overall_score >= 4 * PScale THEN "MODERATE"
  ELSE IF 10 * overall_score >= PScale THEN "WEAK"
  ELSE "MINIMAL"

-----------------------------------------------------------------------------
(* C30 *)

\* the columns column_usage and column_cooccurrence are reported for:
\* exact_matches[:5] of the result
ColumnsReported == Range(Slice(result.exact_matches, MaxColumns))

\* C30: for fixed metadata and fixed index responses analyze_relationship
\* returns the same result whatever order the set of exact matches is
\* iterated in: the columns column_usage and column_cooccurrence are reported
\* for (the first 5 of exact_matches) are a function of the two objects'
\* columns alone, also when the objects share more than 5 columns.
C30_ReportedColumnsDetermined ==
  AnalysisReturned =>
    \A exact \in ListOrders(exact_matches(ColumnsOf(call.object1), ColumnsOf(call.object2)),
                            ColumnsOf(call.object1)) :
      Range(Slice(exact, MaxColumns)) = ColumnsReported

====
